---- MODULE Spec2Model ----
(***************************************************************************)
(* A model of gnosis-mcp's crawl-and-ingest pipeline                       *)
(* (src/src/gnosis_mcp/crawl.py and the two DocBackend implementations).   *)
(*                                                                         *)
(* Spec is one run of crawl_url: the SSRF check of the base URL, the cache *)
(* load, robots.txt, URL discovery (sitemap or BFS), filtering, the        *)
(* backend start, the concurrent per-URL units under the semaphore, the    *)
(* conversion of the gathered results, and the finally block.  Every await *)
(* of the code is a point where another coroutine may run; an action of    *)
(* the model runs one coroutine from one await to the next.                *)
(*                                                                         *)
(* Strings the code inspects character by character (host names, paths)    *)
(* are sequences of one-character strings.                                 *)
(***************************************************************************)
EXTENDS Integers, Sequences, FiniteSets, TLC

\* ------------------------------------------------------------------------
\* Bounds of the model
\* ------------------------------------------------------------------------

\* Documents are numbered 1..MaxChunks; document d is split into d chunks.
MaxChunks == 2

\* CrawlConfig.concurrency ranges over 0..MaxConcurrency: the class takes
\* any integer, and asyncio.Semaphore takes every value that is not negative.
MaxConcurrency == 2

\* ------------------------------------------------------------------------
\* Program constants
\* ------------------------------------------------------------------------

\* _MAX_DEPTH: hard cap on BFS crawl depth.
MAX_DEPTH == 10

\* Python's None; the empty tuple compares with records, functions and tuples.
None == <<>>

\* ------------------------------------------------------------------------
\* Strings as sequences of characters
\* ------------------------------------------------------------------------

\* str.lower() on one character (the alphabet of the model's host names).
LowerChar(c) ==
    CASE c = "A" -> "a"
      [] c = "C" -> "c"
      [] c = "H" -> "h"
      [] c = "P" -> "p"
      [] c = "T" -> "t"
      [] c = "L" -> "l"
      [] c = "O" -> "o"
      [] OTHER -> c

\* str.lower()
Lower(s) == [i \in 1..Len(s) |-> LowerChar(s[i])]

\* str.endswith(suffix)
EndsWith(s, suffix) ==
    /\ Len(s) >= Len(suffix)
    /\ SubSeq(s, Len(s) - Len(suffix) + 1, Len(s)) = suffix

\* str.startswith(prefix)
StartsWith(s, prefix) ==
    /\ Len(s) >= Len(prefix)
    /\ SubSeq(s, 1, Len(prefix)) = prefix

\* "needle in s"
Contains(s, needle) ==
    \E i \in 1..(Len(s) - Len(needle) + 1) :
        SubSeq(s, i, i + Len(needle) - 1) = needle

\* Index of the first occurrence of character c in s, or Len(s) + 1.
IndexOf(s, c) ==
    IF \E i \in 1..Len(s) : s[i] = c
    THEN CHOOSE i \in 1..Len(s) : s[i] = c /\ \A j \in 1..(i - 1) : s[j] # c
    ELSE Len(s) + 1

\* s.split(c)[0]
SplitHead(s, c) == SubSeq(s, 1, IndexOf(s, c) - 1)

\* ------------------------------------------------------------------------
\* Host names and the SSRF guard
\* ------------------------------------------------------------------------

\* netloc values of the model's URLs.
PublicNetloc == <<"x", ".", "i", "o">>
OtherNetloc == <<"y", ".", "i", "o">>
Ip4PrivateNetloc == <<"1", "0", ".", "0", ".", "0", ".", "1">>
Ip4PortNetloc == <<"1", "0", ".", "0", ".", "0", ".", "1", ":", "8", "0">>
LocalhostNetloc == <<"L", "O", "C", "A", "L", "h", "o", "s", "t">>
DotLocalNetloc == <<"a", ".", "l", "o", "c", "a", "l">>
Ip6LoopbackNetloc == <<"[", ":", ":", "1", "]">>
Ip6UlaNetloc == <<"[", "f", "d", "0", "0", ":", ":", "1", "]">>

\* urlparse(url).hostname: the netloc without brackets and port, lower-cased.
Hostname(netloc) ==
    IF netloc # <<>> /\ Head(netloc) = "["
    THEN Lower(SubSeq(netloc, 2, IndexOf(netloc, "]") - 1))
    ELSE Lower(SplitHead(netloc, ":"))

\* ipaddress.ip_address(text): the class of the address text denotes, or
\* "invalid" (ValueError) when text is not an IPv4 or IPv6 literal.
IpAddressClass(text) ==
    CASE text = <<"1", "0", ".", "0", ".", "0", ".", "1">> -> "private"
      [] text = <<":", ":", "1">> -> "loopback"
      [] text = <<"f", "d", "0", "0", ":", ":", "1">> -> "private"
      [] OTHER -> "invalid"

\* _is_private_host(hostname)
IsPrivateHost(hostname) ==
    LET lower == SplitHead(Lower(hostname), ":")
    IN  \/ lower \in {<<"l", "o", "c", "a", "l", "h", "o", "s", "t">>,
                      <<"l", "o", "c", "a", "l", "h", "o", "s", "t", ".",
                        "l", "o", "c", "a", "l", "d", "o", "m", "a", "i", "n">>,
                      <<>>}
        \/ EndsWith(lower, <<".", "l", "o", "c", "a", "l">>)
        \/ EndsWith(lower, <<".", "i", "n", "t", "e", "r", "n", "a", "l">>)
        \/ IpAddressClass(lower) \in {"private", "loopback", "link_local", "reserved"}

\* What the SSRF guard is meant to decide: the host is localhost, a name
\* under .local or .internal, or an IP literal of a non-global class.
HostIsPrivate(hostname) ==
    \/ hostname = <<"l", "o", "c", "a", "l", "h", "o", "s", "t">>
    \/ EndsWith(hostname, <<".", "l", "o", "c", "a", "l">>)
    \/ EndsWith(hostname, <<".", "i", "n", "t", "e", "r", "n", "a", "l">>)
    \/ IpAddressClass(hostname) # "invalid"

\* ------------------------------------------------------------------------
\* URLs
\* ------------------------------------------------------------------------

Http == <<"h", "t", "t", "p">>

\* urlparse(url) as a record; params and query are empty in the model's URLs.
Url(netloc, path, fragment) ==
    [scheme |-> Http, netloc |-> netloc, path |-> path, fragment |-> fragment]

\* str.rstrip("/")
RECURSIVE RStripSlash(_)
RStripSlash(s) ==
    IF s # <<>> /\ s[Len(s)] = "/" THEN RStripSlash(SubSeq(s, 1, Len(s) - 1)) ELSE s

\* A variant of NormalizeUrl: the URL is returned as it is.
NormalizeUrlIdentity(u) == u

\* normalize_url(url)
NormalizeUrl(u) ==
    [scheme |-> Lower(u.scheme),
     netloc |-> Lower(u.netloc),
     path |-> IF u.path # <<"/">> THEN RStripSlash(u.path) ELSE <<"/">>,
     fragment |-> <<>>]

\* The text of a URL, as urlunparse builds it.
UrlText(u) ==
    u.scheme \o <<":", "/", "/">> \o u.netloc \o u.path
        \o (IF u.fragment = <<>> THEN <<>> ELSE <<"#">> \o u.fragment)

RootPath == <<"/">>
PathA == <<"/", "a">>
PathB == <<"/", "b">>
PathASlash == <<"/", "a", "/">>
RobotsPath == <<"/", "r", "o", "b", "o", "t", "s", ".", "t", "x", "t">>
SitemapPath == <<"/", "s", "i", "t", "e", "m", "a", "p", ".", "x", "m", "l">>
NestedPath == <<"/", "n", ".", "x", "m", "l">>
SitemapPagePath == <<"/", "s", "i", "t", "e", "m", "a", "p">>

\* The base URLs crawl_url is called with; the one of the public site is
\* not in normalized form.
BaseUrls ==
    {Url(PublicNetloc, RootPath, <<"t", "o", "p">>)}
    \cup {Url(n, RootPath, <<>>) :
             n \in {Ip4PrivateNetloc, Ip4PortNetloc, LocalhostNetloc,
                    DotLocalNetloc, Ip6LoopbackNetloc, Ip6UlaNetloc}}

\* The pages of the site at netloc n, in normalized form.
Pages(n) == {Url(n, p, <<>>) : p \in {RootPath, PathA, PathB}}

\* ------------------------------------------------------------------------
\* robots.txt
\* ------------------------------------------------------------------------

\* The robots.txt bodies a site may serve: a body is the list of path
\* prefixes it disallows for the crawler's user agent.
RobotsTexts == {<<>>, <<PathA>>, <<RootPath>>}

\* _parse_robots(robots_txt): the parsed policy.
ParseRobots(robots_txt) == [disallow |-> {robots_txt[i] : i \in 1..Len(robots_txt)}]

\* The policy object a call of _parse_robots returns, with the number of the
\* call within the run it was made in.
NthPolicy(policy, nth) == [disallow |-> policy.disallow, nth |-> nth]

\* A variant of CanFetch: the policy is ignored.
CanFetchAlways(robots, u) == TRUE

\* RobotFileParser.can_fetch(user_agent, url)
CanFetch(robots, u) == \A prefix \in robots.disallow : ~StartsWith(u.path, prefix)

\* "robots is not None and not robots.can_fetch(config.user_agent, url)"
RobotsDenies(robots, u) == robots # None /\ ~CanFetch(robots, u)

\* ------------------------------------------------------------------------
\* Sitemaps
\* ------------------------------------------------------------------------

\* A sitemap document: whether it is over _MAX_XML_SIZE, whether it is
\* well-formed XML, and the <loc> texts of its <sitemap> and <url> elements.
SitemapDoc(oversized, wellformed, sitemaps, urls) ==
    [oversized |-> oversized, wellformed |-> wellformed,
     sitemaps |-> sitemaps, urls |-> urls]

\* parse_sitemap(xml_text)
ParseSitemap(doc) ==
    IF doc.oversized THEN <<>>
    ELSE IF ~doc.wellformed THEN <<>>
    ELSE doc.sitemaps \o doc.urls

\* 'u.endswith(".xml") or "sitemap" in u.lower()'
LooksLikeSitemap(u) ==
    \/ EndsWith(UrlText(u), <<".", "x", "m", "l">>)
    \/ Contains(Lower(UrlText(u)), <<"s", "i", "t", "e", "m", "a", "p">>)

\* [x for x in seq if Keep(x)]
RECURSIVE SelectSeqBy(_, _)
SelectSeqBy(seq, keep) ==
    IF seq = <<>> THEN <<>>
    ELSE (IF Head(seq) \in keep THEN <<Head(seq)>> ELSE <<>>)
             \o SelectSeqBy(Tail(seq), keep)

Range(seq) == {seq[i] : i \in 1..Len(seq)}

\* The sitemap.xml bodies the site at netloc n may serve.
SitemapDocs(n) ==
    {SitemapDoc(FALSE, TRUE, <<>>, <<Url(n, PathA, <<>>), Url(n, PathB, <<>>)>>),
     SitemapDoc(FALSE, TRUE, <<>>, <<Url(n, PathA, <<>>), Url(OtherNetloc, PathB, <<>>)>>),
     SitemapDoc(FALSE, TRUE, <<>>, <<Url(n, PathA, <<>>), Url(n, PathASlash, <<>>)>>),
     SitemapDoc(FALSE, TRUE, <<Url(n, NestedPath, <<>>)>>, <<>>),
     SitemapDoc(FALSE, TRUE, <<Url(Ip4PrivateNetloc, NestedPath, <<>>)>>, <<>>),
     SitemapDoc(FALSE, TRUE, <<>>, <<Url(n, SitemapPagePath, <<>>)>>),
     SitemapDoc(FALSE, FALSE, <<>>, <<>>),
     SitemapDoc(TRUE, TRUE, <<>>, <<Url(n, PathA, <<>>)>>)}

\* The bodies a nested sitemap may serve.
NestedDocs(n) ==
    {SitemapDoc(FALSE, TRUE, <<>>, <<Url(n, PathASlash, <<>>)>>),
     SitemapDoc(FALSE, FALSE, <<>>, <<>>)}

\* "Filter to same host and normalize" (the tail of _discover_sitemap)
SameHostNormalized(urls, base_host) ==
    LET same == {u \in Range(urls) : Lower(u.netloc) = base_host}
        kept == SelectSeqBy(urls, same)
    IN  [i \in 1..Len(kept) |-> NormalizeUrl(kept[i])]

\* ------------------------------------------------------------------------
\* Links
\* ------------------------------------------------------------------------

\* The href targets of the page at u, already joined with the page's URL;
\* scheme "mailto" stands for the targets extract_links skips.
Mailto == <<"m", "a", "i", "l", "t", "o">>

PageLinks(u) ==
    CASE u.path = RootPath ->
            <<Url(u.netloc, PathA, <<"f">>),
              [scheme |-> Mailto, netloc |-> <<>>, path |-> <<"x">>, fragment |-> <<>>],
              Url(OtherNetloc, PathB, <<>>),
              Url(u.netloc, PathASlash, <<>>)>>
      [] u.path = PathA -> <<Url(u.netloc, RootPath, <<>>), Url(u.netloc, PathB, <<>>)>>
      [] OTHER -> <<[scheme |-> Mailto, netloc |-> <<>>, path |-> <<"x">>,
                     fragment |-> <<>>]>>

\* The href lists of the bodies a server may answer the BFS with for page u:
\* the page's own links, one link to /a/, or links to /a and /b.
PageBodies(u) ==
    {PageLinks(u),
     <<Url(u.netloc, PathASlash, <<>>)>>,
     <<Url(u.netloc, PathA, <<>>), Url(u.netloc, PathB, <<>>)>>}

\* The first occurrences of a sequence, in order.
RECURSIVE Dedup(_, _)
Dedup(seq, seen) ==
    IF seq = <<>> THEN <<>>
    ELSE IF Head(seq) \in seen THEN Dedup(Tail(seq), seen)
    ELSE <<Head(seq)>> \o Dedup(Tail(seq), seen \cup {Head(seq)})

\* extract_links(html, base_url, same_host_only=True)
ExtractLinks(hrefs, base_url) ==
    LET ok == {h \in Range(hrefs) :
                  /\ h.scheme \in {Http, Http \o <<"s">>}
                  /\ Lower(h.netloc) = Lower(base_url.netloc)}
        kept == SelectSeqBy(hrefs, ok)
    IN  Dedup([i \in 1..Len(kept) |-> NormalizeUrl(kept[i])], {})

\* ------------------------------------------------------------------------
\* url_matches_pattern
\* ------------------------------------------------------------------------

\* fnmatch(path, pattern) for patterns of literal characters and "*".
RECURSIVE FnMatch(_, _)
FnMatch(s, pat) ==
    IF pat = <<>> THEN s = <<>>
    ELSE IF Head(pat) = "*"
         THEN \/ FnMatch(s, Tail(pat))
              \/ s # <<>> /\ FnMatch(Tail(s), pat)
         ELSE s # <<>> /\ Head(s) = Head(pat) /\ FnMatch(Tail(s), Tail(pat))

\* url_matches_pattern(url, pattern)
UrlMatchesPattern(u, pattern) == FnMatch(u.path, pattern)

\* The values of CrawlConfig.include and CrawlConfig.exclude.
Patterns == {None, <<"/", "a", "*">>}

\* The Python slice seq[:stop]: a negative stop counts from the end.
SliceTo(seq, stop) ==
    LET n == IF stop >= 0 THEN stop ELSE Len(seq) + stop
    IN  SubSeq(seq, 1, IF n > Len(seq) THEN Len(seq) ELSE n)

\* A variant of FilterAndCap: the cap is applied before the filters.
FilterAndCapCutFirst(urls, include, exclude, max_urls) ==
    LET cut == IF Len(urls) > max_urls THEN SliceTo(urls, max_urls) ELSE urls
        inc == IF include # None
               THEN SelectSeqBy(cut, {u \in Range(cut) : UrlMatchesPattern(u, include)})
               ELSE cut
    IN  IF exclude # None
        THEN SelectSeqBy(inc, {u \in Range(inc) : ~UrlMatchesPattern(u, exclude)})
        ELSE inc

\* crawl_url steps 4 and 4b: the include and exclude filters, then the cap.
FilterAndCap(urls, include, exclude, max_urls) ==
    LET inc == IF include # None
               THEN SelectSeqBy(urls, {u \in Range(urls) : UrlMatchesPattern(u, include)})
               ELSE urls
        exc == IF exclude # None
               THEN SelectSeqBy(inc, {u \in Range(inc) : ~UrlMatchesPattern(u, exclude)})
               ELSE inc
    IN  IF Len(exc) > max_urls THEN SliceTo(exc, max_urls) ELSE exc

\* ------------------------------------------------------------------------
\* Documents, hashes, rows and cache entries
\* ------------------------------------------------------------------------

\* The page bodies a server returns.  Document 0 has no extractable
\* content; document d > 0 is chunked into d chunks.
Docs == 0..MaxChunks

\* The markdown of document d.
Markdown(d) == <<"markdown", d>>

\* extract_content(html, url): the markdown, or None.
ExtractContent(html) == IF html = 0 THEN None ELSE Markdown(html)

\* content_hash(markdown): a digest, distinct for distinct documents.
ContentHash(markdown) == <<"sha256", markdown[2]>>

\* chunk_by_headings(markdown, url), as the list of chunks the orchestrator
\* hands to ingest_file.
ChunkByHeadings(markdown) ==
    [i \in 1..markdown[2] |-> [title |-> <<"title", markdown[2]>>,
                               content |-> <<"chunk", markdown[2], i>>]]

\* The row INSERTed for chunk i (0-based) of a document.
ChunkRow(i, chunk, content_hash, has_hash_col) ==
    [chunk_index |-> i, content |-> chunk.content,
     content_hash |-> IF has_hash_col /\ content_hash # None THEN content_hash ELSE None]

\* The complete row set ingest_file stores for a document.
RowsOf(markdown, has_hash_col) ==
    [i \in 1..Len(ChunkByHeadings(markdown)) |->
        ChunkRow(i - 1, ChunkByHeadings(markdown)[i], ContentHash(markdown),
                 has_hash_col)]

\* The cache entry _crawl_single writes; a timestamp of 1 is the time of
\* this run, 0 the time of an earlier run.
CacheEntry(etag, last_modified, digest, timestamp) ==
    [etag |-> etag, last_modified |-> last_modified, hash |-> digest,
     timestamp |-> timestamp]

\* The validators a server sends with a document.
EtagOf(doc) == IF doc = 1 THEN <<"etag", doc>> ELSE None
LastModifiedOf(doc) == IF doc = 1 THEN None ELSE <<"date", doc>>

\* ------------------------------------------------------------------------
\* State
\* ------------------------------------------------------------------------

VARIABLES
    url,          \* the base URL crawl_url was called with
    pc,           \* where the crawl_url coroutine stands
    exit,         \* how crawl_url ended: "running", "return", "raise", "cancelled"
    cfg,          \* the CrawlConfig fields the code reads more than once, each
                  \* unread (UnreadConfig) until it is read first and, for the
                  \* fields of the discovery, after it is read last
    cacheFile,    \* the cache file on disk: None when missing, or the saved map
    loaded,       \* the map load_cache returned (None before the load)
    cache,        \* the in-memory cache dict (None before the load)
    robots,       \* the RobotFileParser of crawl_url, or None
    disc,         \* the locals of discover_urls while it runs
    discovered,   \* the candidate URL list
    backend,      \* the DocBackend: its kind, connection state and schema, the
                  \* rows stored before the run, the committed rows and the
                  \* rows the shared connection sees
    hasHash,      \* has_hash of crawl_url
    unit,         \* the per-URL tasks of asyncio.gather, by index in discovered
    results,      \* the list crawl_url returns
    lastRequest,  \* the HTTP request issued last: its stage and URL
    call,         \* the library function run on its own, outside crawl_url
                  \* and ingest_path, with its locals; None in their runs
    saves         \* how many times save_cache was executed

vars == <<url, pc, exit, cfg, cacheFile, loaded, cache, robots, disc, discovered,
          backend, hasHash, unit, results, lastRequest, call, saves>>

\* A variant of ClampDepth: the depth is taken as given.
ClampDepthNone(depth) == depth

\* CrawlConfig.__post_init__: depth is clamped to _MAX_DEPTH.
ClampDepth(depth) == IF depth > MAX_DEPTH THEN MAX_DEPTH ELSE depth

\* The values of CrawlConfig.depth and CrawlConfig.max_urls callers pass.
MaxUrlsBound == 2
Depths == {0, 1, MAX_DEPTH + 1}
MaxUrlsValues == 0..MaxUrlsBound

\* The fields of CrawlConfig before crawl_url has read them: max_urls is -1,
\* every other field 0 or FALSE.
UnreadConfig ==
    [depth |-> 0, max_urls |-> -1, force |-> FALSE, concurrency |-> 0,
     dry_run |-> FALSE]

\* CrawlResult(url, chunks, action, detail)
CrawlResult(u, chunks, action, detail) ==
    [url |-> u, chunks |-> chunks, action |-> action, detail |-> detail]

Request(stage, u) == [stage |-> stage, url |-> u]

\* What an earlier run left behind: the backend in use, the schema of its
\* chunks table, the document stored for every page, and the cache file.
Scenarios ==
    {[kind |-> "sqlite", schema |-> "none", stored |-> 0, cached |-> FALSE],
     [kind |-> "sqlite", schema |-> "current", stored |-> 1, cached |-> TRUE],
     [kind |-> "postgres", schema |-> "current", stored |-> 1, cached |-> TRUE],
     [kind |-> "postgres", schema |-> "legacy", stored |-> 1, cached |-> FALSE]}

\* The cache map an earlier run saved: pages / and /a with validators of
\* document 1, page /b with an entry that has no validators.
EarlierCache(n) ==
    [p \in Pages(n) |->
        IF p.path = PathB
        THEN CacheEntry(None, None, ContentHash(Markdown(1)), 0)
        ELSE CacheEntry(EtagOf(1), LastModifiedOf(1), ContentHash(Markdown(1)), 0)]

EmptyCache(n) == [p \in Pages(n) |-> None]

\* load_cache(path)
LoadCache(file, n) == IF file = None THEN EmptyCache(n) ELSE file

StoredRows(sc, n) ==
    [p \in Pages(n) |->
        IF sc.stored = 0 THEN <<>>
        ELSE RowsOf(Markdown(sc.stored), sc.schema = "current")]

Init ==
    /\ url \in BaseUrls
    /\ pc = "start"
    /\ exit = "running"
    /\ cfg = UnreadConfig
    /\ \E sc \in Scenarios :
        /\ cacheFile = IF sc.cached THEN EarlierCache(url.netloc) ELSE None
        /\ backend = [kind |-> sc.kind, conn |-> "absent", schema |-> sc.schema,
                      before |-> StoredRows(sc, url.netloc),
                      committed |-> StoredRows(sc, url.netloc),
                      work |-> StoredRows(sc, url.netloc)]
    /\ loaded = None
    /\ cache = None
    /\ robots = None
    /\ disc = None
    /\ discovered = <<>>
    /\ hasHash = FALSE
    /\ unit = <<>>
    /\ results = <<>>
    /\ lastRequest = None
    /\ saves = 0
    /\ call = None

\* ------------------------------------------------------------------------
\* crawl_url up to the discovery
\* ------------------------------------------------------------------------

\* crawl_url returns (or raises) before the backend exists.
Leave(how, res) ==
    /\ pc' = "done"
    /\ exit' = how
    /\ results' = res

\* Lines 484-506: the SSRF check of the base URL, load_cache, and the
\* robots.txt request.
Start ==
    /\ pc = "start"
    /\ IF IsPrivateHost(Hostname(url.netloc))
       THEN /\ Leave("return", <<CrawlResult(url, 0, "blocked",
                                             "private/internal host blocked")>>)
            /\ UNCHANGED <<loaded, cache, lastRequest>>
       ELSE /\ loaded' = LoadCache(cacheFile, url.netloc)
            /\ cache' = LoadCache(cacheFile, url.netloc)
            /\ lastRequest' = Request("robots", Url(url.netloc, RobotsPath, <<>>))
            /\ pc' = "robots"
            /\ UNCHANGED <<exit, results>>
    /\ UNCHANGED <<url, cfg, cacheFile, robots, disc, discovered, backend, hasHash,
                   unit, saves>>
    /\ UNCHANGED call

\* discover_urls: dispatch on config.sitemap; _discover_sitemap requests
\* sitemap.xml, _discover_bfs starts from the normalized base URL.  Beside
\* the locals of _discover_bfs the record keeps what the discovery has
\* done: the link depth of every URL of result, the hrefs of the body
\* the seed page was answered with, and the URLs it has sent a GET for.
BfsLocals(base_url) ==
    [mode |-> "bfs",
     queue |-> <<[url |-> NormalizeUrl(base_url), depth |-> 0]>>,
     visited |-> {},
     result |-> <<>>,
     depths |-> <<>>,
     seed_hrefs |-> None,
     gets |-> <<>>]

\* _discover_bfs is called, by discover_urls (sitemap "unused") or as the
\* fallback of _discover_sitemap (sitemap "unfetched").
EnterBfs(policy, sitemap) ==
    \E d \in Depths, m \in MaxUrlsValues :
        /\ cfg' = [cfg EXCEPT !.depth = ClampDepth(d), !.max_urls = m]
        /\ disc' = BfsLocals(url) @@ [robots |-> policy, sitemap |-> sitemap]
        /\ pc' = "bfs"

\* "robots = _parse_robots(robots_txt) if robots_txt else None"
DiscoverRobots(robots_txt) ==
    IF robots_txt # <<>> THEN NthPolicy(ParseRobots(robots_txt), 2) ELSE None

\* Lines 509-518 and 362-388: the robots.txt response, then discover_urls
\* up to its first request.
GotRobots ==
    /\ pc = "robots"
    /\ \E ok \in BOOLEAN, text \in RobotsTexts :
        LET robots_txt == IF ok THEN text ELSE None
        IN  /\ ~ok => text = <<>>
            /\ robots' = IF ok THEN NthPolicy(ParseRobots(robots_txt), 1) ELSE None
            /\ \/ /\ disc' = [mode |-> "sitemap",
                              robots |-> DiscoverRobots(robots_txt)]
                  /\ lastRequest' = Request("sitemap", Url(url.netloc, SitemapPath, <<>>))
                  /\ pc' = "sitemap"
                  /\ UNCHANGED cfg
               \/ /\ EnterBfs(DiscoverRobots(robots_txt), "unused")
                  /\ UNCHANGED lastRequest
    /\ UNCHANGED <<url, exit, cacheFile, loaded, cache, discovered, backend, hasHash,
                   unit, results, saves>>
    /\ UNCHANGED call

\* What is kept of a discovery that returned: which function built the list,
\* what became of sitemap.xml, and the depths and seed hrefs of a BFS.
DiscoveryTrace(via, sitemap, depths, seed_hrefs) ==
    [mode |-> "returned", via |-> via, sitemap |-> sitemap, depths |-> depths,
     seed_hrefs |-> seed_hrefs]

\* discover_urls returned: its locals are gone, the list is crawl_url's.
Discovered(urls, trace) ==
    /\ discovered' = urls
    /\ disc' = trace
    /\ pc' = "filter"

\* The nested sitemaps _discover_sitemap resolves: "nested_sitemaps and
\* len(nested_sitemaps) == len(urls)".
NestedSitemaps(urls) ==
    LET nested == SelectSeqBy(urls, {u \in Range(urls) : LooksLikeSitemap(u)})
    IN  IF nested # <<>> /\ Len(nested) = Len(urls) THEN nested ELSE <<>>

\* What parse_sitemap makes of the body: lines 150-158.
SitemapOutcome(doc) ==
    IF doc.oversized THEN "oversized"
    ELSE IF ~doc.wellformed THEN "malformed"
    ELSE "parsed"

\* Lines 383-416: the sitemap.xml response.  A failed request falls back
\* to BFS; a sitemap index starts the nested requests.
GotSitemap ==
    /\ pc = "sitemap"
    /\ \/ /\ EnterBfs(disc.robots, "unfetched")
          /\ UNCHANGED <<discovered, lastRequest>>
       \/ \E doc \in SitemapDocs(url.netloc) :
            LET urls == ParseSitemap(doc)
                nested == NestedSitemaps(urls)
            IN  IF nested # <<>>
                THEN /\ disc' = [mode |-> "nested", robots |-> disc.robots,
                                 pending |-> nested, urls |-> <<>>]
                     /\ lastRequest' = Request("nested", Head(nested))
                     /\ pc' = "nested"
                     /\ UNCHANGED <<cfg, discovered>>
                ELSE /\ Discovered(SameHostNormalized(urls, Lower(url.netloc)),
                                   DiscoveryTrace("sitemap", SitemapOutcome(doc), <<>>,
                                                  None))
                     /\ UNCHANGED <<cfg, lastRequest>>
    /\ UNCHANGED <<url, exit, cacheFile, loaded, cache, robots, backend, hasHash,
                   unit, results, saves>>
    /\ UNCHANGED call

\* _fetch_nested for the nested sitemap requested last: its <loc> entries,
\* or nothing when the request fails.  asyncio.gather returns the batches
\* in the order of nested_sitemaps.
GotNested ==
    /\ pc = "nested"
    /\ \E batch \in {<<>>} \cup {ParseSitemap(doc) : doc \in NestedDocs(url.netloc)} :
        LET urls == disc.urls \o batch
            rest == Tail(disc.pending)
        IN  IF rest # <<>>
            THEN /\ disc' = [disc EXCEPT !.pending = rest, !.urls = urls]
                 /\ lastRequest' = Request("nested", Head(rest))
                 /\ UNCHANGED <<pc, discovered>>
            ELSE /\ Discovered(SameHostNormalized(urls, Lower(url.netloc)),
                               DiscoveryTrace("sitemap", "parsed", <<>>, None))
                 /\ UNCHANGED lastRequest
    /\ UNCHANGED <<url, exit, cfg, cacheFile, loaded, cache, robots, backend, hasHash,
                   unit, results, saves>>
    /\ UNCHANGED call

\* A variant of AlreadyVisited: no URL counts as visited.
AlreadyVisitedNever(u, visited) == FALSE

\* "if url in visited: continue"
AlreadyVisited(u, visited) == u \in visited

\* One pass of the while loop of _discover_bfs, up to the page request
\* (lines 431-446) or, when the loop ends, the return (line 459).
BfsLoop ==
    /\ pc = "bfs"
    /\ IF disc.queue = <<>> \/ Len(disc.result) >= cfg.max_urls
       THEN /\ Discovered(disc.result,
                          DiscoveryTrace("bfs", disc.sitemap, disc.depths,
                                         disc.seed_hrefs))
            /\ UNCHANGED lastRequest
       ELSE LET head == Head(disc.queue)
                popped == [disc EXCEPT !.queue = Tail(disc.queue)]
                marked == [popped EXCEPT !.visited = @ \cup {head.url}]
                listed == [marked EXCEPT !.result = Append(@, head.url),
                                         !.depths = Append(@, head.depth)]
            IN  /\ discovered' = discovered
                /\ IF AlreadyVisited(head.url, disc.visited)
                   THEN disc' = popped /\ pc' = "bfs" /\ UNCHANGED lastRequest
                   ELSE IF RobotsDenies(disc.robots, head.url)
                   THEN disc' = marked /\ pc' = "bfs" /\ UNCHANGED lastRequest
                   ELSE IF head.depth >= cfg.depth
                   THEN disc' = listed /\ pc' = "bfs" /\ UNCHANGED lastRequest
                   ELSE /\ disc' = [listed EXCEPT !.gets = Append(@, head.url)]
                                        @@ [cur |-> head]
                        /\ lastRequest' = Request("bfs", head.url)
                        /\ pc' = "bfs_get"
    /\ UNCHANGED <<url, exit, cfg, cacheFile, loaded, cache, robots, backend, hasHash,
                   unit, results, saves>>
    /\ UNCHANGED call

\* A variant of Enqueue: the queue is not capped.
RECURSIVE EnqueueUncapped(_, _, _, _, _)
EnqueueUncapped(queue, links, visited, depth, max_urls) ==
    IF links = <<>> THEN queue
    ELSE EnqueueUncapped(IF Head(links) \notin visited
                         THEN Append(queue, [url |-> Head(links), depth |-> depth])
                         ELSE queue,
                         Tail(links), visited, depth, max_urls)

\* "for link in links: if link not in visited and len(queue) < max_urls"
RECURSIVE Enqueue(_, _, _, _, _)
Enqueue(queue, links, visited, depth, max_urls) ==
    IF links = <<>> THEN queue
    ELSE Enqueue(IF Head(links) \notin visited /\ Len(queue) < max_urls
                 THEN Append(queue, [url |-> Head(links), depth |-> depth])
                 ELSE queue,
                 Tail(links), visited, depth, max_urls)

\* Lines 446-457: the response for a page of the BFS.  Links are taken
\* from a 200 text/html response; any other response and any exception add
\* nothing.  The sleep that follows changes no state.
BfsGot ==
    /\ pc = "bfs_get"
    /\ \E html \in BOOLEAN, body \in PageBodies(disc.cur.url) :
        LET links == IF html THEN ExtractLinks(body, disc.cur.url) ELSE <<>>
        IN  /\ ~html => body = PageLinks(disc.cur.url)
            /\ disc' = [mode |-> "bfs", robots |-> disc.robots,
                        sitemap |-> disc.sitemap,
                        queue |-> Enqueue(disc.queue, links, disc.visited,
                                          disc.cur.depth + 1, cfg.max_urls),
                        visited |-> disc.visited, result |-> disc.result,
                        depths |-> disc.depths,
                        seed_hrefs |-> IF html /\ disc.cur.depth = 0 THEN body
                                       ELSE disc.seed_hrefs,
                        gets |-> disc.gets]
    /\ pc' = "bfs"
    /\ UNCHANGED <<url, exit, cfg, cacheFile, loaded, cache, robots, discovered, backend,
                   hasHash, unit, results, lastRequest, saves>>
    /\ UNCHANGED call

\* ------------------------------------------------------------------------
\* crawl_url from the filters to the start of the units
\* ------------------------------------------------------------------------

\* A variant of Finally: the cache is saved in an "except Exception" handler,
\* which a cancellation does not enter.
FinallyNotOnCancel(how) ==
    IF how = "cancelled"
    THEN /\ saves' = saves
         /\ cacheFile' = cacheFile
         /\ pc' = "shutdown"
         /\ exit' = how
    ELSE /\ saves' = saves + 1
         /\ \/ /\ cacheFile' = cache
               /\ pc' = "shutdown"
               /\ exit' = how
            \/ /\ cacheFile' = cacheFile
               /\ pc' = "done"
               /\ exit' = "raise"

\* save_cache(cache, cache_path) followed by the await of backend.shutdown():
\* the finally block of crawl_url.  When save_cache raises, the exception
\* leaves crawl_url and backend.shutdown() is not reached.
Finally(how) ==
    /\ saves' = saves + 1
    /\ \/ /\ cacheFile' = cache
          /\ pc' = "shutdown"
          /\ exit' = how
       \/ /\ cacheFile' = cacheFile
          /\ pc' = "done"
          /\ exit' = "raise"

\* A task of asyncio.gather that has not started: it waits for the semaphore.
NewUnit(u) ==
    [pc |-> "queued", url |-> u, conditional |-> FALSE, got |-> "", fetch |-> None,
     doc |-> None, next |-> 0, tx |-> None, count |-> 0, result |-> None,
     raised |-> "", existing |-> <<"unread">>, matched |-> FALSE,
     ingested |-> FALSE, wrote |-> FALSE]

\* Lines 536-539: the results of a dry run, one per candidate URL.
DryRunResults(urls) == [i \in 1..Len(urls) |-> CrawlResult(urls[i], 0, "dry-run", "")]

\* A variant of IsDryRun: the flag is ignored.
IsDryRunNever(dry_run) == FALSE

\* Line 535: "if crawl_config.dry_run"
IsDryRun(dry_run) == dry_run

\* What steps 4 and 4b were given: the list discover_urls returned and
\* the include, exclude and max_urls of the CrawlConfig.
Filtered(found, include, exclude, max_urls) ==
    [mode |-> "filtered", found |-> found, include |-> include,
     exclude |-> exclude, max_urls |-> max_urls]

\* Lines 521-545: the filters, the cap, the dry-run return, create_backend
\* and the call of backend.startup().
Filter ==
    /\ pc = "filter"
    /\ \E include \in Patterns, exclude \in Patterns, dry_run \in BOOLEAN,
          m \in MaxUrlsValues :
        /\ cfg.max_urls \in {-1, m}
        /\ discovered' = FilterAndCap(discovered, include, exclude, m)
        /\ cfg' = [cfg EXCEPT !.depth = 0, !.max_urls = -1, !.dry_run = dry_run]
        /\ disc' = Filtered(discovered, include, exclude, m)
        /\ IF IsDryRun(dry_run)
           THEN Leave("return", DryRunResults(discovered'))
           ELSE pc' = "startup" /\ UNCHANGED <<exit, results>>
    /\ UNCHANGED <<url, cacheFile, loaded, cache, robots, backend, hasHash, unit,
                   lastRequest, saves>>
    /\ UNCHANGED call

\* Line 545: backend.startup() returns, or raises before the try block.
Startup ==
    /\ pc = "startup"
    /\ \/ /\ backend' = [backend EXCEPT !.conn = "open"]
          /\ pc' = "schema"
          /\ UNCHANGED <<exit, results>>
       \/ /\ Leave("raise", <<>>)
          /\ UNCHANGED backend
    /\ disc' = None
    /\ UNCHANGED <<url, cfg, cacheFile, loaded, cache, robots, discovered, hasHash,
                   unit, lastRequest, saves>>
    /\ UNCHANGED call

\* Lines 549-575: has_column, init_schema when the table is missing, the
\* semaphore and the tasks handed to asyncio.gather.  An exception of a
\* backend call runs the finally block.
Schema ==
    /\ pc = "schema"
    /\ \/ /\ \E force \in BOOLEAN, concurrency \in 0..MaxConcurrency :
                cfg' = [cfg EXCEPT !.force = force, !.concurrency = concurrency]
          /\ backend' = [backend EXCEPT !.schema = IF @ = "none" THEN "current" ELSE @]
          /\ hasHash' = (backend'.schema = "current")
          /\ unit' = [i \in 1..Len(discovered) |-> NewUnit(discovered[i])]
          /\ pc' = "gather"
          /\ UNCHANGED <<exit, cacheFile, saves>>
       \/ /\ Finally("raise")
          /\ UNCHANGED <<cfg, backend, hasHash, unit>>
    /\ UNCHANGED <<url, loaded, cache, robots, disc, discovered, results, lastRequest>>
    /\ UNCHANGED call

\* ------------------------------------------------------------------------
\* fetch_page
\* ------------------------------------------------------------------------

\* An HTTP response: its status, the URL it came from after redirects,
\* whether Content-Length exceeds _MAX_RESPONSE_SIZE, whether Content-Type
\* is HTML, and the document in its body.
Response(status, final, too_large, html, doc) ==
    [status |-> status, final |-> final, too_large |-> too_large, html |-> html,
     doc |-> doc]

\* A variant of SendsValidators: no request is conditional.
SendsValidatorsNever(cached, force) == FALSE

\* A variant of SendsValidators: force is ignored.
SendsValidatorsForced(cached, force) ==
    cached # None /\ (cached.etag # None \/ cached.last_modified # None)

\* "if cached and not force": whether fetch_page sends If-None-Match or
\* If-Modified-Since.
SendsValidators(cached, force) ==
    /\ cached # None
    /\ ~force
    /\ (cached.etag # None \/ cached.last_modified # None)

\* The responses a server may give for page u.  304 answers a conditional
\* request only; a redirect may end on a private host.
Responses(u, conditional) ==
    (IF conditional THEN {Response(304, u, FALSE, FALSE, 0)} ELSE {})
    \cup {Response(500, u, FALSE, TRUE, 0)}
    \cup {Response(200, Url(Ip4PrivateNetloc, u.path, <<>>), FALSE, TRUE, 1)}
    \cup {Response(200, u, TRUE, TRUE, 1)}
    \cup {Response(200, u, FALSE, FALSE, 1)}
    \cup {Response(200, u, FALSE, TRUE, d) : d \in Docs}

\* What the response is, in the words of the data model (FetchOutcome).
ResponseKind(resp) ==
    CASE resp.status = 304 -> "not_modified"
      [] resp.status >= 400 -> "http_error"
      [] HostIsPrivate(Hostname(resp.final.netloc)) -> "redirect_private"
      [] resp.too_large -> "too_large"
      [] ~resp.html -> "wrong_content_type"
      [] OTHER -> "fetched"

FetchResult(resp) ==
    [url |-> resp.final, html |-> resp.doc, etag |-> EtagOf(resp.doc),
     last_modified |-> LastModifiedOf(resp.doc)]

\* fetch_page after the response (lines 304-329): None, an HTTPStatusError
\* of raise_for_status, or a _FetchResult.
FetchPage(resp) ==
    IF resp.status = 304 THEN [kind |-> "none"]
    ELSE IF resp.status >= 400 THEN [kind |-> "raise"]
    ELSE IF IsPrivateHost(Hostname(resp.final.netloc)) THEN [kind |-> "none"]
    ELSE IF resp.too_large THEN [kind |-> "none"]
    ELSE IF ~resp.html THEN [kind |-> "none"]
    ELSE [kind |-> "result", value |-> FetchResult(resp)]

\* ------------------------------------------------------------------------
\* _crawl_single: the results it returns
\* ------------------------------------------------------------------------

\* Line 648
RobotsBlockedResult(u) == CrawlResult(u, 0, "blocked", "robots.txt")

\* Lines 653-656: what _crawl_single returns when fetch_page returned None.
FetchNoneResult(u) == CrawlResult(u, 0, "unchanged", "304 Not Modified")

\* Lines 660-663
NoContentResult(u) == CrawlResult(u, 0, "skipped", "No extractable content")

\* Lines 677-679
HashMatchResult(u) == CrawlResult(u, 0, "unchanged", "hash match")

\* Line 719
CrawledResult(u, count) == CrawlResult(u, count, "crawled", "")

\* A variant of ExceptionResult: the failure is reported as skipped.
ExceptionResultSkipped(u, msg) == CrawlResult(u, 0, "skipped", msg)

\* Lines 723-724: "except Exception as e".
ExceptionResult(u, msg) == CrawlResult(u, 0, "error", msg)

\* Lines 579-586: an exception object among the results of
\* asyncio.gather(..., return_exceptions=True) becomes an Error result.
\* The task of a unit in which CancelledError was raised is cancelled, and
\* gather returns a CancelledError for it, whose str() is empty.
GatheredResult(un) ==
    IF un.pc = "cancelled" THEN CrawlResult(un.url, 0, "error", "") ELSE un.result

\* A variant of GatheredResults: the results of the URLs that were skipped
\* are left out.
GatheredResultsNoSkipped(units) ==
    SelectSeq([i \in 1..Len(units) |-> GatheredResult(units[i])],
              LAMBDA r : r.action \notin {"skipped", "blocked"})

\* Lines 575-586: gather returns the results of the tasks in the order of the
\* tasks, and each is converted at its own index.
GatheredResults(units) == [i \in 1..Len(units) |-> GatheredResult(units[i])]

\* ------------------------------------------------------------------------
\* The tasks
\* ------------------------------------------------------------------------

mainVars == <<url, pc, exit, cfg, cacheFile, loaded, robots, disc, discovered,
              hasHash, results, saves>>

Units == 1..Len(unit)

\* The task is inside "async with sem".
Holding(i) == unit[i].pc \notin {"queued", "done", "cancelled"}

Ended(i) == unit[i].pc \in {"done", "cancelled"}

\* The task returned res: its locals are gone.
Finished(un, res) ==
    [un EXCEPT !.pc = "done", !.result = res, !.fetch = None, !.doc = None,
               !.next = 0, !.tx = None]

\* An exception other than CancelledError was raised in the try block.
Raised(un, msg) == Finished([un EXCEPT !.raised = msg], ExceptionResult(un.url, msg))

\* CancelledError was raised in the task: "except asyncio.CancelledError: raise".
CancelledUnit(un) ==
    [un EXCEPT !.pc = "cancelled", !.fetch = None, !.doc = None, !.next = 0,
               !.tx = None]

\* A variant of WriteCache: the map is rebuilt around the one entry.
WriteCacheAlone(c, un, digest) ==
    [p \in DOMAIN c |->
        IF p = un.url THEN CacheEntry(un.fetch.etag, un.fetch.last_modified, digest, 1)
        ELSE None]

\* Lines 671-676 and 708-713: "cache[url] = {...}".
WriteCache(c, un, digest) ==
    [c EXCEPT ![un.url] = CacheEntry(un.fetch.etag, un.fetch.last_modified, digest, 1)]

\* A variant of CanEnter: the semaphore admits every task.
CanEnterUnbounded(i) ==
    /\ unit[i].pc = "queued"
    /\ \A j \in 1..(i - 1) : unit[j].pc # "queued"

\* asyncio.Semaphore wakes its waiters in the order they arrived: task i
\* enters when a permit is free and every earlier task has entered.
CanEnter(i) ==
    /\ unit[i].pc = "queued"
    /\ \A j \in 1..(i - 1) : unit[j].pc # "queued"
    /\ Cardinality({j \in Units : Holding(j)}) < cfg.concurrency

\* Lines 561-562, 646-652 and 294-302: the task enters the semaphore, checks
\* robots.txt and sends the page request.
UnitStart(i) ==
    /\ pc = "gather"
    /\ CanEnter(i)
    /\ LET un == unit[i] IN
        IF RobotsDenies(robots, un.url)
        THEN /\ unit' = [unit EXCEPT ![i] = Finished(un, RobotsBlockedResult(un.url))]
             /\ UNCHANGED lastRequest
        ELSE /\ unit' = [unit EXCEPT ![i] =
                            [un EXCEPT !.pc = "fetch",
                                       !.conditional =
                                           SendsValidators(cache[un.url], cfg.force)]]
             /\ lastRequest' = Request("page", un.url)
    /\ UNCHANGED <<mainVars, cache, backend>>
    /\ UNCHANGED call

\* Lines 302-329 and 652-659: the response arrives; fetch_page returns and
\* _crawl_single hands the HTML to extract_content.
UnitFetched(i) ==
    /\ pc = "gather"
    /\ unit[i].pc = "fetch"
    /\ LET un == unit[i] IN
        \/ unit' = [unit EXCEPT ![i] = Raised([un EXCEPT !.got = "network_error"],
                                              "network error")]
        \/ unit' = [unit EXCEPT ![i] = CancelledUnit(un)]
        \/ \E resp \in Responses(un.url, un.conditional) :
            LET seen == [un EXCEPT !.got = ResponseKind(resp)]
                fetched == FetchPage(resp)
            IN  unit' = [unit EXCEPT ![i] =
                    CASE fetched.kind = "raise" -> Raised(seen, "http status error")
                      [] fetched.kind = "none" -> Finished(seen, FetchNoneResult(un.url))
                      [] OTHER -> [seen EXCEPT !.pc = "extract",
                                               !.fetch = fetched.value]]
    /\ UNCHANGED <<mainVars, cache, backend, lastRequest>>
    /\ UNCHANGED call

\* ingest_file is called: its first statement (the DELETE) is awaited.
EnterIngest(un, doc) == [un EXCEPT !.pc = "delete", !.doc = doc, !.next = 0]

\* Lines 659-668 and 682-688: extract_content returns; the digest is
\* computed, and either get_content_hash or ingest_file is called.
UnitExtracted(i) ==
    /\ pc = "gather"
    /\ unit[i].pc = "extract"
    /\ LET un == unit[i]
           markdown == ExtractContent(un.fetch.html)
       IN  \/ unit' = [unit EXCEPT ![i] = Raised(un, "extract error")]
           \/ unit' = [unit EXCEPT ![i] = CancelledUnit(un)]
           \/ unit' = [unit EXCEPT ![i] =
                  IF markdown = None THEN Finished(un, NoContentResult(un.url))
                  ELSE IF hasHash /\ ~cfg.force
                       THEN [un EXCEPT !.pc = "hash", !.doc = markdown]
                       ELSE EnterIngest(un, markdown)]
    /\ UNCHANGED <<mainVars, cache, backend, lastRequest>>
    /\ UNCHANGED call

\* The rows a statement of the backend sees for a path: SQLite runs every
\* statement on its one connection, PostgreSQL reads committed rows.
Visible(path) ==
    IF backend.kind = "sqlite" THEN backend.work[path] ELSE backend.committed[path]

\* get_content_hash(path): "rows[0][0] if rows else None", the query having
\* LIMIT 1 and no ORDER BY.
StoredHashes(path) ==
    IF Visible(path) = <<>> THEN {None}
    ELSE {Visible(path)[k].content_hash : k \in 1..Len(Visible(path))}

\* A variant of HashMatches: a page with no stored hash counts as unchanged.
HashMatchesOrMissing(existing, digest) == existing = digest \/ existing = None

\* A variant of HashMatches: no stored hash ever counts as equal.
HashMatchesNever(existing, digest) == FALSE

\* Line 669: "existing == digest"
HashMatches(existing, digest) == existing = digest

\* Lines 668-682: get_content_hash returns; on a match the cache entry is
\* written and the task returns Unchanged, otherwise ingest_file is called.
UnitHashed(i) ==
    /\ pc = "gather"
    /\ unit[i].pc = "hash"
    /\ LET un == unit[i]
           digest == ContentHash(un.doc)
       IN  \/ /\ unit' = [unit EXCEPT ![i] = Raised(un, "database error")]
              /\ UNCHANGED cache
           \/ /\ unit' = [unit EXCEPT ![i] = CancelledUnit(un)]
              /\ UNCHANGED cache
           \/ \E existing \in StoredHashes(un.url) :
                IF HashMatches(existing, digest)
                THEN /\ cache' = WriteCache(cache, un, digest)
                     /\ unit' = [unit EXCEPT ![i] =
                            Finished([un EXCEPT !.existing = existing, !.matched = TRUE,
                                                !.wrote = TRUE],
                                     HashMatchResult(un.url))]
                ELSE /\ unit' = [unit EXCEPT ![i] =
                            EnterIngest([un EXCEPT !.existing = existing], un.doc)]
                     /\ UNCHANGED cache
    /\ UNCHANGED <<mainVars, backend, lastRequest>>
    /\ UNCHANGED call

\* ------------------------------------------------------------------------
\* ingest_file
\* ------------------------------------------------------------------------

\* SqliteBackend.ingest_file runs its statements on the connection shared
\* by all tasks, in the transaction sqlite3 opens implicitly: backend.work
\* is what that connection sees, backend.committed what is durable.
\* PostgresBackend.ingest_file runs them on a connection of its own inside
\* "async with conn.transaction()": un.tx holds the rows of the path as the
\* open transaction sees them.

\* "DELETE FROM documentation_chunks WHERE file_path = ?"
SqliteDelete(b, path) == [b EXCEPT !.work[path] = <<>>]

\* "INSERT INTO documentation_chunks (...) VALUES (...)"
SqliteInsert(b, path, row) == [b EXCEPT !.work[path] = Append(@, row)]

\* "await self._db.commit()": everything the connection wrote is committed.
SqliteCommit(b, path) == [b EXCEPT !.committed = b.work]

\* The end of "async with conn.transaction()": the transaction commits.
PostgresCommit(b, path, tx) == [b EXCEPT !.committed[path] = tx]

\* UNIQUE (file_path, chunk_index) of the SQLite schema.
SqliteUniqueViolation(b, path, row) ==
    \E k \in 1..Len(b.work[path]) : b.work[path][k].chunk_index = row.chunk_index

\* Lines 639-641 (735-737): the DELETE has run.
UnitDeleted(i) ==
    /\ pc = "gather"
    /\ unit[i].pc = "delete"
    /\ LET un == unit[i] IN
        \/ /\ unit' = [unit EXCEPT ![i] = Raised(un, "database error")]
           /\ UNCHANGED backend
        \/ /\ unit' = [unit EXCEPT ![i] = CancelledUnit(un)]
           /\ UNCHANGED backend
        \/ /\ unit' = [unit EXCEPT ![i] = [un EXCEPT !.pc = "insert", !.tx = <<>>]]
           /\ backend' = IF backend.kind = "sqlite" THEN SqliteDelete(backend, un.url)
                         ELSE backend
    /\ UNCHANGED <<mainVars, cache, lastRequest>>
    /\ UNCHANGED call

\* Lines 642-663 (738-762): the INSERT of chunk un.next has run.
UnitInserted(i) ==
    /\ pc = "gather"
    /\ unit[i].pc = "insert"
    /\ LET un == unit[i]
           chunks == ChunkByHeadings(un.doc)
           row == ChunkRow(un.next, chunks[un.next + 1], ContentHash(un.doc), hasHash)
           after == IF un.next + 1 < Len(chunks) THEN "insert" ELSE "commit"
       IN  \/ /\ unit' = [unit EXCEPT ![i] = Raised(un, "database error")]
              /\ UNCHANGED backend
           \/ /\ unit' = [unit EXCEPT ![i] = CancelledUnit(un)]
              /\ UNCHANGED backend
           \/ /\ ~(backend.kind = "sqlite" /\ SqliteUniqueViolation(backend, un.url, row))
              /\ unit' = [unit EXCEPT ![i] =
                     [un EXCEPT !.pc = after, !.next = @ + 1, !.tx = Append(@, row)]]
              /\ backend' = IF backend.kind = "sqlite"
                            THEN SqliteInsert(backend, un.url, row)
                            ELSE backend
    /\ UNCHANGED <<mainVars, cache, lastRequest>>
    /\ UNCHANGED call

\* Lines 664-665 (734, 763) and 699-717: the commit; ingest_file returns
\* the chunk count.  _crawl_single calls insert_links when the page has
\* links; otherwise it writes the cache entry and sleeps.
UnitCommitted(i) ==
    /\ pc = "gather"
    /\ unit[i].pc = "commit"
    /\ LET un == unit[i]
           links == ExtractLinks(PageLinks(un.url), un.url)
           back == [un EXCEPT !.ingested = TRUE,
                              !.count = Len(ChunkByHeadings(un.doc)), !.tx = None]
       IN  \/ /\ unit' = [unit EXCEPT ![i] = Raised(un, "database error")]
              /\ UNCHANGED <<backend, cache>>
           \/ /\ unit' = [unit EXCEPT ![i] = CancelledUnit(un)]
              /\ UNCHANGED <<backend, cache>>
           \/ /\ backend' = IF backend.kind = "sqlite"
                            THEN SqliteCommit(backend, un.url)
                            ELSE PostgresCommit(backend, un.url, un.tx)
              /\ IF links # <<>>
                 THEN /\ unit' = [unit EXCEPT ![i] = [back EXCEPT !.pc = "links"]]
                      /\ UNCHANGED cache
                 ELSE /\ unit' = [unit EXCEPT ![i] =
                             [back EXCEPT !.pc = "sleep", !.wrote = TRUE]]
                      /\ cache' = WriteCache(cache, un, ContentHash(un.doc))
    /\ UNCHANGED <<mainVars, lastRequest>>
    /\ UNCHANGED call

\* insert_links can return: PostgresBackend has the method, SqliteBackend
\* has none, so that the call raises AttributeError.
HasInsertLinks(b) == b.kind = "postgres"

\* A variant of LinksFailed: the exception of insert_links is not caught at
\* the call and ends the task as an error.
LinksFailedUncaught(un) == Raised(un, "insert_links")

\* Lines 704-705: "except Exception" around insert_links only logs; the
\* task goes on to its cache entry.
LinksFailed(un) == [un EXCEPT !.pc = "sleep", !.wrote = TRUE]

\* Lines 703-717: insert_links returns or raises.  Then the cache entry is
\* written and the rate-limit sleep begins.
UnitLinked(i) ==
    /\ pc = "gather"
    /\ unit[i].pc = "links"
    /\ LET un == unit[i] IN
        \/ /\ unit' = [unit EXCEPT ![i] = CancelledUnit(un)]
           /\ UNCHANGED cache
        \/ /\ HasInsertLinks(backend)
           /\ unit' = [unit EXCEPT ![i] = [un EXCEPT !.pc = "sleep", !.wrote = TRUE]]
           /\ cache' = WriteCache(cache, un, ContentHash(un.doc))
        \/ /\ unit' = [unit EXCEPT ![i] = LinksFailed(un)]
           /\ cache' = IF unit'[i].wrote
                       THEN WriteCache(cache, un, ContentHash(un.doc))
                       ELSE cache
    /\ UNCHANGED <<mainVars, backend, lastRequest>>
    /\ UNCHANGED call

\* Lines 717-719: the sleep is over; the task returns Crawled.
UnitSlept(i) ==
    /\ pc = "gather"
    /\ unit[i].pc = "sleep"
    /\ unit' = [unit EXCEPT ![i] = Finished(unit[i], CrawledResult(unit[i].url,
                                                                    unit[i].count))]
    /\ UNCHANGED <<mainVars, cache, backend, lastRequest>>
    /\ UNCHANGED call

\* ------------------------------------------------------------------------
\* The end of crawl_url
\* ------------------------------------------------------------------------

\* Lines 575-627: every task has ended, so gather returns; the results are
\* converted, embed_pending runs when config.embed is set and a page was
\* crawled, and the finally block is entered.  embed_pending may raise, and
\* crawl_url may be cancelled while it awaits it.
Collect ==
    /\ pc = "gather"
    /\ \A i \in Units : Ended(i)
    /\ results' = GatheredResults(unit)
    /\ \E how \in {"return", "raise", "cancelled"} :
        /\ how # "return" => \E i \in 1..Len(results') : results'[i].action = "crawled"
        /\ Finally(how)
    /\ UNCHANGED <<url, cfg, loaded, cache, robots, disc, discovered, backend, hasHash,
                   unit, lastRequest>>
    /\ UNCHANGED call

\* crawl_url is cancelled while it awaits a request, the discovery or
\* backend.startup(): CancelledError leaves crawl_url.
CancelEarly ==
    /\ pc \in {"robots", "sitemap", "nested", "bfs_get", "startup"}
    /\ Leave("cancelled", <<>>)
    /\ UNCHANGED <<url, cfg, cacheFile, loaded, cache, robots, disc, discovered, backend,
                   hasHash, unit, lastRequest, saves>>
    /\ UNCHANGED call

\* crawl_url is cancelled inside the try block, while it awaits a backend
\* call or asyncio.gather.  gather cancels every task that has not ended
\* and raises CancelledError once all of them have; a PostgreSQL
\* transaction that is open is rolled back.
CancelRun ==
    /\ pc \in {"schema", "gather"}
    /\ unit' = [i \in Units |-> IF Ended(i) THEN unit[i] ELSE CancelledUnit(unit[i])]
    /\ Finally("cancelled")
    /\ UNCHANGED <<url, cfg, loaded, cache, robots, disc, discovered, backend, hasHash,
                   results, lastRequest>>
    /\ UNCHANGED call

\* backend.shutdown(): closing the SQLite connection discards what was not
\* committed.
Close(b) == [b EXCEPT !.conn = "closed", !.work = b.committed]

\* Lines 628-630: backend.shutdown() returns and crawl_url ends.
Shutdown ==
    /\ pc = "shutdown"
    /\ backend' = Close(backend)
    /\ pc' = "done"
    /\ UNCHANGED <<url, exit, cfg, cacheFile, loaded, cache, robots, disc, discovered,
                   hasHash, unit, results, lastRequest, saves>>
    /\ UNCHANGED call

Next ==
    \/ Start
    \/ GotRobots
    \/ GotSitemap
    \/ GotNested
    \/ BfsLoop
    \/ BfsGot
    \/ Filter
    \/ Startup
    \/ Schema
    \/ \E i \in Units : UnitStart(i)
    \/ \E i \in Units : UnitFetched(i)
    \/ \E i \in Units : UnitExtracted(i)
    \/ \E i \in Units : UnitHashed(i)
    \/ \E i \in Units : UnitDeleted(i)
    \/ \E i \in Units : UnitInserted(i)
    \/ \E i \in Units : UnitCommitted(i)
    \/ \E i \in Units : UnitLinked(i)
    \/ \E i \in Units : UnitSlept(i)
    \/ Collect
    \/ CancelEarly
    \/ CancelRun
    \/ Shutdown

Spec == Init /\ [][Next]_vars

\* ------------------------------------------------------------------------
\* ingest_path
\* ------------------------------------------------------------------------

\* ingest_path(config, root, force=...) over a directory of two files, with
\* dry_run false.  The variables stand for the locals of ingest_path: url is
\* root, discovered the sorted list scan_files returns, unit the locals of
\* the passes of the file loop, results the IngestResult list.  The passes
\* run one after the other; an exception of a backend call leaves the loop
\* and runs the finally block.

File == <<"f", "i", "l", "e">>

\* A path below root, as the text str(f.relative_to(base)) names it.
FilePath(name) == [scheme |-> File, netloc |-> <<>>, path |-> name, fragment |-> <<>>]

IngestRoot == FilePath(<<"d", "o", "c", "s">>)

\* scan_files(root_path): the supported files under root, sorted.
ScanFiles(root) == <<FilePath(<<"a", ".", "m", "d">>), FilePath(<<"b", ".", "m", "d">>)>>

\* IngestResult(path, chunks, action, detail)
IngestResult(path, chunks, action, detail) ==
    [path |-> path, chunks |-> chunks, action |-> action, detail |-> detail]

\* The rows an earlier ingest stored for the files.
IngestStoredRows(sc) ==
    [f \in Range(ScanFiles(IngestRoot)) |->
        IF sc.stored = 0 THEN <<>>
        ELSE RowsOf(Markdown(sc.stored), sc.schema = "current")]

IngestInit ==
    /\ url = IngestRoot
    /\ pc = "ingest_startup"
    /\ exit = "running"
    /\ cfg = UnreadConfig
    /\ cacheFile = None
    /\ \E sc \in Scenarios :
        backend = [kind |-> sc.kind, conn |-> "absent", schema |-> sc.schema,
                   before |-> IngestStoredRows(sc),
                   committed |-> IngestStoredRows(sc),
                   work |-> IngestStoredRows(sc)]
    /\ loaded = None
    /\ cache = None
    /\ robots = None
    /\ disc = None
    /\ discovered = ScanFiles(IngestRoot)
    /\ hasHash = FALSE
    /\ unit = <<>>
    /\ results = <<>>
    /\ lastRequest = None
    /\ saves = 0
    /\ call = None

\* What ingest_path has no counterpart of.
crawlVars == <<url, cacheFile, loaded, cache, robots, disc, discovered, lastRequest,
               saves>>

\* Lines 551-552: create_backend and backend.startup(), which may raise.
IngestStartup ==
    /\ pc = "ingest_startup"
    /\ \/ /\ backend' = [backend EXCEPT !.conn = "open"]
          /\ pc' = "ingest_schema"
          /\ UNCHANGED <<exit, results>>
       \/ /\ Leave("raise", <<>>)
          /\ UNCHANGED backend
    /\ UNCHANGED <<crawlVars, cfg, hasHash, unit>>
    /\ UNCHANGED call

\* Lines 556-563: has_column, init_schema when the table is missing, and
\* has_hash.
IngestSchema ==
    /\ pc = "ingest_schema"
    /\ \/ /\ \E force \in BOOLEAN : cfg' = [cfg EXCEPT !.force = force]
          /\ backend' = [backend EXCEPT !.schema = IF @ = "none" THEN "current" ELSE @]
          /\ hasHash' = (backend'.schema = "current")
          /\ unit' = [i \in 1..Len(discovered) |-> NewUnit(discovered[i])]
          /\ pc' = "ingest_loop"
          /\ UNCHANGED exit
       \/ /\ pc' = "ingest_shutdown"
          /\ exit' = "raise"
          /\ UNCHANGED <<cfg, backend, hasHash, unit>>
    /\ UNCHANGED <<crawlVars, results>>
    /\ UNCHANGED call

\* The pass of the file loop that runs: every earlier file has its result.
IngestCurrent == Len(results) + 1

\* The pass for file i ends with "results.append(res)".
IngestAppend(i, un, res) ==
    /\ unit' = [unit EXCEPT ![i] = Finished(un, res)]
    /\ results' = Append(results, res)

\* Lines 565-585 and 593-603: the file is read and hashed; a file that
\* cannot be read or is too small gets its result; otherwise
\* get_content_hash or, after chunk_by_headings, ingest_file is called.
IngestRead ==
    /\ pc = "ingest_loop"
    /\ IngestCurrent \in Units
    /\ unit[IngestCurrent].pc = "queued"
    /\ LET i == IngestCurrent
           un == unit[i]
       IN  \/ IngestAppend(i, un, IngestResult(un.url, 0, "error", "os error"))
           \/ \E text \in Docs :
                IF text = 0
                THEN IngestAppend(i, un, IngestResult(un.url, 0, "skipped", "Too small"))
                ELSE /\ unit' = [unit EXCEPT ![i] =
                            IF hasHash /\ ~cfg.force
                            THEN [un EXCEPT !.pc = "hash", !.doc = Markdown(text)]
                            ELSE EnterIngest(un, Markdown(text))]
                     /\ UNCHANGED results
    /\ UNCHANGED <<crawlVars, pc, exit, cfg, backend, hasHash>>
    /\ UNCHANGED call

\* Lines 586-591: get_content_hash returns; on a match get_doc counts the
\* stored chunks and the file is Unchanged, otherwise ingest_file is called.
IngestHashed ==
    /\ pc = "ingest_loop"
    /\ IngestCurrent \in Units
    /\ unit[IngestCurrent].pc = "hash"
    /\ LET i == IngestCurrent
           un == unit[i]
           digest == ContentHash(un.doc)
       IN  \E existing \in StoredHashes(un.url) :
             IF HashMatches(existing, digest)
             THEN IngestAppend(i, [un EXCEPT !.existing = existing, !.matched = TRUE],
                               IngestResult(un.url, Len(Visible(un.url)), "unchanged", ""))
             ELSE /\ unit' = [unit EXCEPT ![i] =
                         EnterIngest([un EXCEPT !.existing = existing], un.doc)]
                  /\ UNCHANGED results
    /\ UNCHANGED <<crawlVars, pc, exit, cfg, backend, hasHash>>
    /\ UNCHANGED call

\* ingest_file, lines 639-641 (735-737): the DELETE has run.
IngestDeleted ==
    /\ pc = "ingest_loop"
    /\ IngestCurrent \in Units
    /\ unit[IngestCurrent].pc = "delete"
    /\ unit' = [unit EXCEPT ![IngestCurrent] = [@ EXCEPT !.pc = "insert", !.tx = <<>>]]
    /\ backend' = IF backend.kind = "sqlite"
                  THEN SqliteDelete(backend, unit[IngestCurrent].url)
                  ELSE backend
    /\ UNCHANGED <<crawlVars, pc, exit, cfg, hasHash, results>>
    /\ UNCHANGED call

\* ingest_file, lines 642-663 (738-762): the INSERT of chunk un.next has run.
IngestInserted ==
    /\ pc = "ingest_loop"
    /\ IngestCurrent \in Units
    /\ unit[IngestCurrent].pc = "insert"
    /\ LET un == unit[IngestCurrent]
           chunks == ChunkByHeadings(un.doc)
           row == ChunkRow(un.next, chunks[un.next + 1], ContentHash(un.doc), hasHash)
           after == IF un.next + 1 < Len(chunks) THEN "insert" ELSE "commit"
       IN  /\ unit' = [unit EXCEPT ![IngestCurrent] =
                  [un EXCEPT !.pc = after, !.next = @ + 1, !.tx = Append(@, row)]]
           /\ backend' = IF backend.kind = "sqlite"
                         THEN SqliteInsert(backend, un.url, row)
                         ELSE backend
    /\ UNCHANGED <<crawlVars, pc, exit, cfg, hasHash, results>>
    /\ UNCHANGED call

\* extract_relates_to(text): the first file names link targets in its
\* frontmatter, the others name none.
ExtractRelatesTo(path) ==
    IF path = Head(ScanFiles(IngestRoot)) THEN <<ScanFiles(IngestRoot)[2]>> ELSE <<>>

\* ingest_file, lines 664-665 (734, 763), and lines 616-625 of ingest_path:
\* the commit; insert_links is called when the file names link targets,
\* otherwise the file's result is Ingested.
IngestCommitted ==
    /\ pc = "ingest_loop"
    /\ IngestCurrent \in Units
    /\ unit[IngestCurrent].pc = "commit"
    /\ LET un == unit[IngestCurrent]
           count == Len(ChunkByHeadings(un.doc))
           back == [un EXCEPT !.ingested = TRUE, !.count = count, !.tx = None]
       IN  /\ backend' = IF backend.kind = "sqlite"
                         THEN SqliteCommit(backend, un.url)
                         ELSE PostgresCommit(backend, un.url, un.tx)
           /\ IF ExtractRelatesTo(un.url) # <<>>
              THEN /\ unit' = [unit EXCEPT ![IngestCurrent] = [back EXCEPT !.pc = "links"]]
                   /\ UNCHANGED results
              ELSE IngestAppend(IngestCurrent, back,
                                IngestResult(un.url, count, "ingested", ""))
    /\ UNCHANGED <<crawlVars, pc, exit, cfg, hasHash>>
    /\ UNCHANGED call

\* Lines 619-625: insert_links returns, or raises an Exception that is
\* only logged; the file's result is Ingested.
IngestLinked ==
    /\ pc = "ingest_loop"
    /\ IngestCurrent \in Units
    /\ unit[IngestCurrent].pc = "links"
    /\ LET un == unit[IngestCurrent] IN
        \/ /\ HasInsertLinks(backend)
           /\ IngestAppend(IngestCurrent, un,
                           IngestResult(un.url, un.count, "ingested", ""))
        \/ IngestAppend(IngestCurrent, un, IngestResult(un.url, un.count, "ingested", ""))
    /\ UNCHANGED <<crawlVars, pc, exit, cfg, backend, hasHash>>
    /\ UNCHANGED call

\* A backend call of the pass raises: nothing catches it inside the loop,
\* so the finally block runs and the exception leaves ingest_path.
IngestFailed ==
    /\ pc = "ingest_loop"
    /\ IngestCurrent \in Units
    /\ unit[IngestCurrent].pc \in {"hash", "delete", "insert", "commit"}
    /\ unit' = [unit EXCEPT ![IngestCurrent] = [@ EXCEPT !.raised = "database error",
                                                         !.tx = None]]
    /\ pc' = "ingest_shutdown"
    /\ exit' = "raise"
    /\ UNCHANGED <<crawlVars, cfg, backend, hasHash, results>>
    /\ UNCHANGED call

\* Line 565: the loop is over.
IngestLoopEnd ==
    /\ pc = "ingest_loop"
    /\ IngestCurrent \notin Units
    /\ pc' = "ingest_shutdown"
    /\ exit' = "return"
    /\ UNCHANGED <<crawlVars, cfg, backend, hasHash, unit, results>>
    /\ UNCHANGED call

\* Lines 628-631: backend.shutdown() in the finally block; ingest_path ends.
IngestShutdown ==
    /\ pc = "ingest_shutdown"
    /\ backend' = Close(backend)
    /\ pc' = "done"
    /\ UNCHANGED <<crawlVars, exit, cfg, hasHash, unit, results>>
    /\ UNCHANGED call

IngestNext ==
    \/ IngestStartup
    \/ IngestSchema
    \/ IngestRead
    \/ IngestHashed
    \/ IngestDeleted
    \/ IngestInserted
    \/ IngestCommitted
    \/ IngestLinked
    \/ IngestFailed
    \/ IngestLoopEnd
    \/ IngestShutdown

\* A run of crawl_url or a run of ingest_path.
CrawlOrIngestInit == Init \/ IngestInit

CrawlOrIngestNext == Next \/ IngestNext

SpecCrawlOrIngest == CrawlOrIngestInit /\ [][CrawlOrIngestNext]_vars

\* ------------------------------------------------------------------------
\* Properties
\* ------------------------------------------------------------------------

\* asyncio.gather has returned and its results were converted.
Collected == unit # <<>> /\ Len(results) = Len(unit)

\* C1: a unit in which an exception other than cancellation was raised gets
\* the result (url, 0, Error, message of the exception), and every unit's
\* result is the one its own _crawl_single returned, at its own index: no
\* sibling is aborted or reported differently.
C1_ExceptionIsolated ==
    Collected =>
        \A i \in Units :
            /\ results[i].url = discovered[i]
            /\ unit[i].raised # "" =>
                   results[i] = CrawlResult(discovered[i], 0, "error", unit[i].raised)
            /\ unit[i].pc = "done" => results[i] = unit[i].result

\* C1 happens: one unit raised and a sibling was crawled.
C1_Witness ==
    /\ Collected
    /\ \E i, j \in Units :
        /\ i # j
        /\ unit[i].raised # ""
        /\ results[j].action = "crawled"

\* C2: a cancellation raised inside a unit is never reported as an Error
\* result: no result list crawl_url returns holds an Error entry for a unit
\* whose task was cancelled.
C2_CancellationNeverError ==
    (pc = "done" /\ exit = "return") =>
        \A i \in 1..Len(results) :
            (i \in Units /\ unit[i].pc = "cancelled") => results[i].action # "error"

\* C3: no request of any stage goes to a URL whose host is private.
C3_NoRequestToPrivateHost ==
    lastRequest # None => ~HostIsPrivate(Hostname(lastRequest.url.netloc))

\* C4: for a base URL on a private host crawl_url returns exactly one
\* result, Blocked, and before that sends no request, loads and saves no
\* cache and touches no backend.
C4_PrivateBaseBlocked ==
    HostIsPrivate(Hostname(url.netloc)) =>
        /\ lastRequest = None
        /\ loaded = None
        /\ saves = 0
        /\ backend.conn = "absent"
        /\ pc \in {"start", "done"}
        /\ pc = "done" =>
            /\ exit = "return"
            /\ Len(results) = 1
            /\ results[1].url = url
            /\ results[1].action = "blocked"

\* C5: a page whose response came, after redirects, from a private host is
\* reported Blocked, and its body is neither ingested nor cached.
C5_RedirectToPrivateBlocked ==
    Collected =>
        \A i \in Units :
            unit[i].got = "redirect_private" =>
                /\ results[i].action = "blocked"
                /\ ~unit[i].ingested
                /\ ~unit[i].wrote

\* C6: a result is Unchanged only after a 304 response or a hash match.
C6_UnchangedOnlyIf304OrHashMatch ==
    Collected =>
        \A i \in Units :
            results[i].action = "unchanged" =>
                unit[i].got = "not_modified" \/ unit[i].matched

\* The loaded robots policy disallows u.
DisallowedByRobots(u) ==
    /\ robots # None
    /\ \E prefix \in robots.disallow :
        /\ Len(u.path) >= Len(prefix)
        /\ \A k \in 1..Len(prefix) : u.path[k] = prefix[k]

\* C7: with a robots policy loaded, a disallowed URL is never requested as a
\* page, by the BFS or by a unit, and its result is Blocked, "robots.txt";
\* without a policy no result is blocked for robots.txt.
C7_RobotsObeyed ==
    /\ (lastRequest # None /\ lastRequest.stage \in {"bfs", "page"}) =>
           ~DisallowedByRobots(lastRequest.url)
    /\ Collected =>
        \A i \in Units :
            /\ DisallowedByRobots(discovered[i]) =>
                   results[i] = CrawlResult(discovered[i], 0, "blocked", "robots.txt")
            /\ (results[i].action = "blocked" /\ results[i].detail = "robots.txt") =>
                   DisallowedByRobots(discovered[i])

\* C7 happens: a candidate URL that robots.txt disallows got its result.
C7_Witness ==
    /\ Collected
    /\ \E i \in Units : DisallowedByRobots(discovered[i]) /\ results[i].action = "blocked"

\* The unit ended without an ingest and without a hash match.
KeepsEntry(i) ==
    \/ results[i].action \in {"blocked", "skipped", "error"}
    \/ unit[i].got = "not_modified"

\* C8: a cache entry differs from the loaded one only if ingest_file had
\* returned for its URL or the stored hash had been found equal to the
\* content hash; a URL whose units end Blocked, Skipped, Error or with a 304
\* keeps its loaded entry.
C8_CacheWrittenOnlyAfterIngestOrMatch ==
    cache # None =>
        /\ \A p \in DOMAIN cache :
            cache[p] # loaded[p] =>
                \E i \in Units :
                    /\ unit[i].url = p
                    /\ unit[i].ingested \/ unit[i].existing = cache[p].hash
        /\ Collected =>
            \A p \in DOMAIN cache :
                (\A i \in Units : unit[i].url = p => KeepsEntry(i)) =>
                    cache[p] = loaded[p]

\* C8 happens: one unit wrote its entry and another ended in an error.
C8_Witness ==
    /\ Collected
    /\ \E i, j \in Units :
        /\ cache[unit[i].url] # loaded[unit[i].url]
        /\ results[j].action = "error"
        /\ cache[unit[j].url] = loaded[unit[j].url]

\* C9: once the backend was started, save_cache runs exactly once, after
\* every unit has ended, however the run ends; the map it saves holds the
\* entry of every unit that wrote one.
C9_CacheSavedOnce ==
    /\ saves <= 1
    /\ (pc = "done" /\ backend.conn # "absent") => saves = 1
    /\ saves = 1 => \A i \in Units : unit[i].pc \in {"done", "cancelled"}
    /\ (saves = 1 /\ backend.conn = "closed") =>
        \A i \in Units :
            unit[i].wrote =>
                /\ cacheFile # None
                /\ cacheFile[unit[i].url] = cache[unit[i].url]
                /\ cacheFile[unit[i].url].timestamp = 1

\* C9 happens: a cancelled run in which a unit had written its entry.
C9_Witness ==
    /\ pc = "done"
    /\ exit = "cancelled"
    /\ saves = 1
    /\ \E i, j \in Units : unit[i].wrote /\ unit[j].pc = "cancelled"

\* C10: in every committed state the rows of a path are the complete rows
\* stored before the run or the complete rows of one document.
C10_AtomicReplace ==
    \A p \in DOMAIN backend.committed :
        \/ backend.committed[p] = backend.before[p]
        \/ \E d \in 1..MaxChunks, h \in BOOLEAN :
            /\ Len(backend.committed[p]) = d
            /\ \A k \in 1..d :
                /\ backend.committed[p][k].chunk_index = k - 1
                /\ backend.committed[p][k].content = <<"chunk", d, k>>

\* C11: with a hash column and force false, ingest_file (its DELETE, INSERTs
\* and commit) runs for a URL or file only after get_content_hash returned
\* a hash that differs from the hash of the current content; a URL or file
\* whose hash matched is Unchanged, is not ingested, and the rows of its
\* path stay the stored ones.
C11_UnchangedContentNotIngested ==
    \A i \in Units :
        /\ (hasHash /\ ~cfg.force /\ unit[i].pc \in {"delete", "insert", "commit"}) =>
               /\ unit[i].existing # <<"unread">>
               /\ unit[i].existing # ContentHash(unit[i].doc)
        /\ unit[i].matched =>
               /\ hasHash /\ ~cfg.force
               /\ unit[i].pc = "done"
               /\ unit[i].result.action = "unchanged"
               /\ ~unit[i].ingested
               /\ (\A j \in Units : unit[j].url = unit[i].url => j = i) =>
                      /\ backend.work[unit[i].url] = backend.before[unit[i].url]
                      /\ backend.committed[unit[i].url] = backend.before[unit[i].url]

\* C11 happens: a second ingest_path over a directory in which one file is
\* as stored and the other changed.
C11_Witness ==
    /\ url = IngestRoot
    /\ pc = "done"
    /\ exit = "return"
    /\ \E i, j \in Units :
        /\ unit[i].matched
        /\ results[i].action = "unchanged"
        /\ unit[j].ingested

\* The cache entry holds an etag or a last_modified value.
HasValidators(entry) ==
    entry # None /\ (entry.etag # None \/ entry.last_modified # None)

\* The page request of unit i has been sent.
Requested(i) == unit[i].pc = "fetch" \/ unit[i].got # ""

\* No other unit of the run has the URL of unit i.
OnlyUnitOfUrl(i) == \A j \in Units : unit[j].url = unit[i].url => j = i

\* C12: with force false, the request for a URL whose cache entry holds an
\* etag or last_modified is conditional; a unit answered with 304 ends
\* Unchanged with 0 chunks, without a backend read or write and without a
\* cache write, so its cache entry and its rows stay as they were.
C12_NotModifiedLeavesAllAsLoaded ==
    \A i \in Units :
        /\ (Requested(i) /\ ~cfg.force /\ HasValidators(loaded[unit[i].url])) =>
               unit[i].conditional
        /\ unit[i].got = "not_modified" =>
               /\ unit[i].conditional
               /\ unit[i].pc = "done"
               /\ unit[i].result = CrawlResult(unit[i].url, 0, "unchanged",
                                               "304 Not Modified")
               /\ unit[i].existing = <<"unread">>
               /\ ~unit[i].matched /\ ~unit[i].ingested /\ ~unit[i].wrote
               /\ OnlyUnitOfUrl(i) =>
                      /\ cache[unit[i].url] = loaded[unit[i].url]
                      /\ backend.work[unit[i].url] = backend.before[unit[i].url]
                      /\ backend.committed[unit[i].url] = backend.before[unit[i].url]

\* C12 happens: the results hold a unit that was answered with 304.
C12_Witness ==
    /\ Collected
    /\ \E i \in Units :
        /\ unit[i].got = "not_modified"
        /\ results[i].action = "unchanged"
        /\ HasValidators(loaded[unit[i].url])

\* C13: with force true no request is conditional, get_content_hash is not
\* called and no unit ends on a hash match; a unit whose page was fetched
\* and had content, and in which nothing was raised, ends Crawled after
\* ingest_file returned.
C13_ForceReingests ==
    cfg.force =>
        \A i \in Units :
            /\ ~unit[i].conditional
            /\ unit[i].pc # "hash"
            /\ unit[i].existing = <<"unread">>
            /\ ~unit[i].matched
            /\ unit[i].pc = "done" => unit[i].result.detail # "hash match"
            /\ (/\ unit[i].pc = "done"
                /\ unit[i].got = "fetched"
                /\ unit[i].raised = ""
                /\ unit[i].result.action # "skipped") =>
                   /\ unit[i].ingested
                   /\ unit[i].result.action = "crawled"
                   /\ unit[i].result.chunks >= 1

\* C13 happens: with force, a page that has a cache entry with validators
\* and whose stored rows are those of the document served was crawled again.
C13_Witness ==
    /\ Collected
    /\ cfg.force
    /\ hasHash
    /\ \E i \in Units :
        /\ HasValidators(loaded[unit[i].url])
        /\ results[i] = CrawledResult(unit[i].url, 1)
        /\ backend.before[unit[i].url] = RowsOf(Markdown(1), TRUE)

\* The units that are fetching, extracting, looking up the hash, ingesting,
\* inserting links or sleeping the rate-limit delay.
InFlight ==
    {i \in Units : unit[i].pc \in {"fetch", "extract", "hash", "delete", "insert",
                                   "commit", "links", "sleep"}}

\* C14: while the units run, at most cfg.concurrency of them are in flight;
\* a unit that returned, returned an Error or was cancelled holds no permit:
\* whenever fewer than cfg.concurrency units are in flight and a unit waits,
\* a waiting unit can enter.
C14_BoundedParallelism ==
    pc = "gather" =>
        /\ Cardinality(InFlight) <= cfg.concurrency
        /\ ((\E i \in Units : unit[i].pc = "queued")
                /\ Cardinality(InFlight) < cfg.concurrency) =>
               ENABLED (\E i \in Units : UnitStart(i))

\* C14 happens: with concurrency 1, a unit is in flight after another ended
\* in an Error or was cancelled, so the permit was handed on.
C14_Witness ==
    /\ pc = "gather"
    /\ cfg.concurrency = 1
    /\ \E i, j \in Units :
        /\ unit[i].pc = "cancelled" \/ (unit[i].pc = "done" /\ unit[i].raised # "")
        /\ j \in InFlight

\* C15: a dry run returns one DryRun result with 0 chunks per URL of the
\* discovered and filtered list, in order, and has neither started a backend
\* nor created a unit, sent no page request of fetch_page, left the cache
\* map as loaded and never saved the cache file.
C15_DryRunOnlyDiscovers ==
    cfg.dry_run =>
        /\ pc = "done"
        /\ exit = "return"
        /\ Len(results) = Len(discovered)
        /\ \A i \in 1..Len(results) :
               results[i] = CrawlResult(discovered[i], 0, "dry-run", "")
        /\ backend.conn = "absent"
        /\ backend.work = backend.before
        /\ backend.committed = backend.before
        /\ unit = <<>>
        /\ lastRequest # None => lastRequest.stage # "page"
        /\ cache = loaded
        /\ loaded = LoadCache(cacheFile, url.netloc)
        /\ saves = 0

\* C15 happens: a dry run over a sitemap with two entries of the site.
C15_Witness ==
    /\ cfg.dry_run
    /\ pc = "done"
    /\ lastRequest.stage = "sitemap"
    /\ Len(results) = 2
    /\ \A i \in 1..2 : results[i].action = "dry-run" /\ results[i].chunks = 0

\* The sequence holds no element twice.
NoDuplicates(seq) == \A i, j \in 1..Len(seq) : seq[i] = seq[j] => i = j

\* _discover_bfs is running.
InBfs == pc \in {"bfs", "bfs_get"}

\* _discover_bfs has just returned the candidate list.
BfsReturned == pc = "filter" /\ disc.via = "bfs"

\* C16, as claimed: the BFS returns at most max_urls URLs, none of them
\* twice, and its queue never holds more than max_urls entries.
C16_BfsBounded ==
    /\ InBfs =>
        /\ Len(disc.result) <= cfg.max_urls
        /\ NoDuplicates(disc.result)
        /\ Len(disc.queue) <= cfg.max_urls
    /\ BfsReturned =>
        /\ Len(discovered) <= cfg.max_urls
        /\ NoDuplicates(discovered)

\* C16, amended: the BFS returns at most max_urls URLs, none of them twice,
\* and its queue never holds more than max_urls entries or, when max_urls
\* is below 1, more than the seed.
C16_BfsBoundedButSeed ==
    /\ InBfs =>
        /\ Len(disc.result) <= cfg.max_urls
        /\ NoDuplicates(disc.result)
        /\ Len(disc.queue) <= (IF cfg.max_urls < 1 THEN 1 ELSE cfg.max_urls)
    /\ BfsReturned =>
        /\ Len(discovered) <= cfg.max_urls
        /\ NoDuplicates(discovered)

\* C16 happens: the seed page linked to /a and /b, and with max_urls 1 the
\* queue took one of them.
C16_Witness ==
    /\ pc = "bfs"
    /\ cfg.max_urls = 1
    /\ disc.seed_hrefs = <<Url(url.netloc, PathA, <<>>), Url(url.netloc, PathB, <<>>)>>
    /\ Len(disc.queue) = 1
    /\ disc.result = <<NormalizeUrl(url)>>

\* The seed of the BFS: the base URL with lower-case host and no fragment.
Seed == Url(Lower(url.netloc), url.path, <<>>)

\* C17, as claimed: a BFS with depth 0 requests no page and returns exactly
\* the seed.
C17_DepthZeroReturnsSeed ==
    /\ (InBfs /\ cfg.depth = 0) =>
        /\ pc # "bfs_get"
        /\ lastRequest.stage # "bfs"
    /\ (BfsReturned /\ cfg.depth = 0) => discovered = <<Seed>>

\* C17, amended: a BFS with depth 0 requests no page and returns exactly
\* the seed when max_urls is at least 1 and robots.txt allows the seed, and
\* no URL otherwise.
C17_DepthZeroReturnsSeedIfAllowed ==
    /\ (InBfs /\ cfg.depth = 0) =>
        /\ pc # "bfs_get"
        /\ lastRequest.stage # "bfs"
    /\ (BfsReturned /\ cfg.depth = 0) =>
        discovered = IF cfg.max_urls >= 1 /\ ~DisallowedByRobots(Seed)
                     THEN <<Seed>>
                     ELSE <<>>

\* C17 happens: a BFS with depth 0 returned the seed, which is not the base
\* URL as given.
C17_Witness ==
    /\ BfsReturned
    /\ cfg.depth = 0
    /\ discovered = <<Seed>>
    /\ Seed # url
    /\ lastRequest.stage # "bfs"

\* The depths d[1..] are those of a breadth-first order under the limit:
\* they start at 0, never decrease and never exceed limit.
BreadthFirstDepths(d, limit) ==
    \A k \in 1..Len(d) :
        /\ d[k] <= limit
        /\ k = 1 => d[k] = 0
        /\ k > 1 => d[k - 1] <= d[k]

IsNormalized(u) ==
    /\ u.netloc = Lower(u.netloc)
    /\ u.fragment = <<>>
    /\ u.path = RootPath \/ (u.path # <<>> /\ u.path[Len(u.path)] # "/")

\* C19: the candidate list discovery hands over holds only normalized URLs
\* of the base URL's host and no URL twice, and no two units of a run have
\* the same URL.
C19_CandidatesNormalizedUnique ==
    /\ pc = "filter" =>
        /\ \A k \in 1..Len(discovered) :
            /\ IsNormalized(discovered[k])
            /\ discovered[k].netloc = Lower(url.netloc)
        /\ NoDuplicates(discovered)
    /\ \A i, j \in Units : unit[i].url = unit[j].url => i = j

\* C20: in sitemap mode, when the sitemap could not be fetched, was
\* malformed, or was over the size ceiling, discovery returns what the BFS
\* from the base URL found.
C20_SitemapFailureFallsBackToBfs ==
    (pc = "filter" /\ disc.sitemap \in {"unfetched", "malformed", "oversized"})
        => disc.via = "bfs"

\* The URL passes the include and exclude globs, each matched against its
\* path.
PassesGlobs(u, include, exclude) ==
    /\ include # None => FnMatch(u.path, include)
    /\ exclude # None => ~FnMatch(u.path, exclude)

\* The first n elements of a sequence, all of it when it is shorter and
\* none when n is not positive.
FirstN(seq, n) ==
    SubSeq(seq, 1, IF n < 0 THEN 0 ELSE IF n > Len(seq) THEN Len(seq) ELSE n)

\* The URLs of the discovered list that pass the globs, in discovery order,
\* cut to the first max_urls.
FilteredThenCut ==
    FirstN(SelectSeq(disc.found,
                     LAMBDA u : PassesGlobs(u, disc.include, disc.exclude)),
           disc.max_urls)

\* The filters and the cap have run and their inputs are still at hand.
AfterFilter == disc # None /\ disc.mode = "filtered"

\* C21: the list that is fetched, or reported in a dry run, is the first
\* max_urls of the discovered URLs that pass the include and exclude globs,
\* in discovery order.
C21_FilterThenTruncate ==
    AfterFilter =>
        /\ discovered = FilteredThenCut
        /\ cfg.dry_run => results = [k \in 1..Len(FilteredThenCut) |->
                              CrawlResult(FilteredThenCut[k], 0, "dry-run", "")]

\* C21 happens: of the discovered /a and /b the exclude glob "/a*" removed
\* the first, and with max_urls 1 the second is the one to fetch.
C21_Witness ==
    /\ AfterFilter
    /\ pc = "startup"
    /\ disc.max_urls = 1
    /\ disc.exclude = <<"/", "a", "*">>
    /\ Len(disc.found) = 2
    /\ discovered = <<disc.found[2]>>

\* ------------------------------------------------------------------------
\* The library functions run on their own
\* ------------------------------------------------------------------------

\* The variables of crawl_url and ingest_path, which rest while a library
\* function is run on its own.
runVars == <<url, pc, exit, cfg, cacheFile, loaded, cache, robots, disc, discovered,
             backend, hasHash, unit, results, lastRequest, saves>>

\* No run of crawl_url or ingest_path is under way.
NoRun ==
    /\ url = None
    /\ pc = "library"
    /\ exit = "running"
    /\ cfg = UnreadConfig
    /\ cacheFile = None
    /\ loaded = None
    /\ cache = None
    /\ robots = None
    /\ disc = None
    /\ discovered = <<>>
    /\ backend = None
    /\ hasHash = FALSE
    /\ unit = <<>>
    /\ results = <<>>
    /\ lastRequest = None
    /\ saves = 0

\* ------------------------------------------------------------------------
\* json.dump and json.loads
\* ------------------------------------------------------------------------

\* The Python values of a cache file: None, str, float, list and dict (a
\* function from its keys to their values).
PyNone == [t |-> "None", v |-> ""]
PyStr(s) == [t |-> "str", v |-> s]
PyFloat(x) == [t |-> "float", v |-> x]
PyList(items) == [t |-> "list", v |-> items]
PyDict(f) == [t |-> "dict", v |-> f]

\* A JSON text is the sequence of its tokens; the white space of indent=2
\* lies between tokens.  "byte" is a byte that is not valid UTF-8.
Tok(k, v) == [k |-> k, v |-> v]

\* A variant of DumpNone: None is written as str(None).
DumpNoneAsStr == <<Tok("str", "None")>>

\* json.dump of None
DumpNone == <<Tok("null", "")>>

\* The keys of a dict in one fixed order.
RECURSIVE KeysOf(_)
KeysOf(ks) ==
    IF ks = {} THEN <<>>
    ELSE LET k == CHOOSE x \in ks : TRUE IN <<k>> \o KeysOf(ks \ {k})

\* json.dump(data, f, indent=2): the text written for a value.
RECURSIVE JsonDump(_)
RECURSIVE DumpItems(_)
RECURSIVE DumpMembers(_, _)
JsonDump(value) ==
    IF value.t = "None" THEN DumpNone
    ELSE IF value.t = "str" THEN <<Tok("str", value.v)>>
    ELSE IF value.t = "float" THEN <<Tok("num", value.v)>>
    ELSE IF value.t = "list"
         THEN <<Tok("[", "")>> \o DumpItems(value.v) \o <<Tok("]", "")>>
    ELSE <<Tok("{", "")>> \o DumpMembers(value.v, KeysOf(DOMAIN value.v))
             \o <<Tok("}", "")>>

DumpItems(items) ==
    IF items = <<>> THEN <<>>
    ELSE JsonDump(Head(items))
             \o (IF Len(items) > 1 THEN <<Tok(",", "")>> ELSE <<>>)
             \o DumpItems(Tail(items))

DumpMembers(f, keys) ==
    IF keys = <<>> THEN <<>>
    ELSE <<Tok("str", Head(keys)), Tok(":", "")>> \o JsonDump(f[Head(keys)])
             \o (IF Len(keys) > 1 THEN <<Tok(",", "")>> ELSE <<>>)
             \o DumpMembers(f, Tail(keys))

\* What the decoder makes of the start of a text: a value and the rest of
\* the text, or no value.
Parsed(val, rest) == [ok |-> TRUE, val |-> val, rest |-> rest]
NotParsed == [ok |-> FALSE, val |-> PyNone, rest |-> <<>>]

\* The dict of the members read, a later member replacing an earlier one
\* of the same key.
DictOf(members) ==
    [k \in {members[i].key : i \in 1..Len(members)} |->
        LET last == CHOOSE i \in 1..Len(members) :
                        /\ members[i].key = k
                        /\ \A j \in (i + 1)..Len(members) : members[j].key # k
        IN  members[last].val]

\* The JSON decoder: a value at the head of the text.
RECURSIVE ParseValue(_)
RECURSIVE ParseItems(_, _)
RECURSIVE ParseMembers(_, _)
ParseValue(toks) ==
    IF toks = <<>> THEN NotParsed
    ELSE LET h == Head(toks).k
             rest == Tail(toks)
         IN  IF h = "null" THEN Parsed(PyNone, rest)
             ELSE IF h = "str" THEN Parsed(PyStr(Head(toks).v), rest)
             ELSE IF h = "num" THEN Parsed(PyFloat(Head(toks).v), rest)
             ELSE IF h = "["
                  THEN IF rest # <<>> /\ Head(rest).k = "]"
                       THEN Parsed(PyList(<<>>), Tail(rest))
                       ELSE ParseItems(rest, <<>>)
             ELSE IF h = "{"
                  THEN IF rest # <<>> /\ Head(rest).k = "}"
                       THEN Parsed(PyDict(<<>>), Tail(rest))
                       ELSE ParseMembers(rest, <<>>)
             ELSE NotParsed

ParseItems(toks, items) ==
    LET item == ParseValue(toks) IN
    IF ~item.ok \/ item.rest = <<>> THEN NotParsed
    ELSE IF Head(item.rest).k = ","
         THEN ParseItems(Tail(item.rest), Append(items, item.val))
    ELSE IF Head(item.rest).k = "]"
         THEN Parsed(PyList(Append(items, item.val)), Tail(item.rest))
    ELSE NotParsed

ParseMembers(toks, members) ==
    IF Len(toks) < 2 \/ toks[1].k # "str" \/ toks[2].k # ":" THEN NotParsed
    ELSE LET val == ParseValue(SubSeq(toks, 3, Len(toks)))
             all == Append(members, [key |-> toks[1].v, val |-> val.val])
         IN  IF ~val.ok \/ val.rest = <<>> THEN NotParsed
             ELSE IF Head(val.rest).k = ","
                  THEN ParseMembers(Tail(val.rest), all)
             ELSE IF Head(val.rest).k = "}"
                  THEN Parsed(PyDict(DictOf(all)), Tail(val.rest))
             ELSE NotParsed

\* json.loads(text): the value, or JSONDecodeError when the text is not
\* one JSON value.
JsonLoads(text) ==
    LET r == ParseValue(text)
    IN  IF r.ok /\ r.rest = <<>> THEN r ELSE NotParsed

\* ------------------------------------------------------------------------
\* load_cache and save_cache
\* ------------------------------------------------------------------------

\* A path of the cache directory: a regular file with its text and mode, a
\* directory, or nothing.
RegularFile(content, mode) == [kind |-> "file", content |-> content, mode |-> mode]
Directory == [kind |-> "dir", content |-> <<>>, mode |-> "755"]
Absent == [kind |-> "absent", content |-> <<>>, mode |-> ""]

\* The outcome of a call: the value returned, or the exception raised.
Returned(value) == [raised |-> "", value |-> value]
RaisedError(name) == [raised |-> name, value |-> PyNone]

\* load_cache(path): {} for a missing file, for JSONDecodeError and for
\* OSError (read_text of a directory); the value of json.loads otherwise.
\* read_text raises UnicodeDecodeError for bytes that are not UTF-8.
LoadCacheFile(f) ==
    IF f.kind = "absent" THEN Returned(PyDict(<<>>))
    ELSE IF f.kind = "dir" THEN Returned(PyDict(<<>>))
    ELSE IF \E i \in 1..Len(f.content) : f.content[i].k = "byte"
         THEN RaisedError("UnicodeDecodeError")
    ELSE LET r == JsonLoads(f.content)
         IN  IF r.ok THEN Returned(r.val) ELSE Returned(PyDict(<<>>))

\* The cache entries and cache maps handed to save_cache.
CacheKeys == {"u1", "u2"}
EntryValues ==
    {PyDict([etag |-> PyStr("e"), last_modified |-> PyNone, hash |-> PyStr("h1"),
             timestamp |-> PyFloat("1.5")]),
     PyDict([etag |-> PyNone, last_modified |-> PyStr("d"), hash |-> PyStr("h2"),
             timestamp |-> PyFloat("2.5")])}
CacheMaps ==
    {PyDict(f) : f \in UNION {[ks -> EntryValues] : ks \in SUBSET CacheKeys}}

\* What the cache path holds before the first call: nothing, a directory,
\* a cache file of an earlier save, or a file that is no cache file: empty,
\* cut short, a JSON value that is no object, an object whose values are no
\* entries, bytes that are not UTF-8.
MapOne == PyDict([u1 |-> CHOOSE e \in EntryValues : e.v.etag = PyNone])
FilesBefore ==
    {Absent, Directory}
    \cup {RegularFile(text, mode) :
            text \in {JsonDump(MapOne),
                      <<>>,
                      SubSeq(JsonDump(MapOne), 1, 5),
                      <<Tok("[", ""), Tok("]", "")>>,
                      <<Tok("null", "")>>,
                      <<Tok("{", ""), Tok("str", "u1"), Tok(":", ""), Tok("num", "5"),
                        Tok("}", "")>>,
                      <<Tok("byte", "ff")>>},
            mode \in {"600", "644"}}

\* How many calls of save_cache a run of the cache functions makes.
MaxSaves == 2

\* The locals of save_cache and what surrounds it: the cache path (dest),
\* the temporary file of mkstemp (tmp), the map being saved (data), the
\* content of the path when the save began (prev), the map of the last
\* save that returned (saved), the outcome of the last save (out), and the
\* file and outcome of a load_cache since the path last changed (read, ret).
CacheIo(dest) ==
    [fn |-> "cache", pc |-> "idle", dest |-> dest, tmp |-> Absent, data |-> PyNone,
     prev |-> Absent, saved |-> PyNone, out |-> Returned(PyNone), read |-> Absent,
     ret |-> RaisedError("not called"), saves |-> 0]

CacheInit ==
    /\ NoRun
    /\ \E f \in FilesBefore : call = CacheIo(f)

\* load_cache(path), by this process or by a reader beside a save.
LoadCall ==
    /\ call.fn = "cache"
    /\ call' = [call EXCEPT !.read = call.dest, !.ret = LoadCacheFile(call.dest)]
    /\ UNCHANGED runVars

\* Lines 241-243: mkdir and mkstemp in the parent directory; either may
\* raise OSError, outside the try block.
SaveCall ==
    /\ call.pc = "idle"
    /\ call.saves < MaxSaves
    /\ \E m \in CacheMaps :
        \/ call' = [call EXCEPT !.pc = "opened", !.data = m, !.prev = call.dest,
                                !.tmp = RegularFile(<<>>, "600"),
                                !.saves = call.saves + 1]
        \/ call' = [call EXCEPT !.data = m, !.prev = call.dest,
                                !.out = RaisedError("OSError: mkstemp"),
                                !.saves = call.saves + 1]
    /\ UNCHANGED runVars

\* Lines 245-246: json.dump writes the text to the temporary file piece by
\* piece; a write may raise OSError.
SaveWrite ==
    /\ call.pc \in {"opened", "writing"}
    /\ LET text == JsonDump(call.data)
           half == SubSeq(text, 1, Len(text) \div 2)
       IN  \/ /\ call.pc = "opened"
              /\ call' = [call EXCEPT !.pc = "writing", !.tmp.content = half]
           \/ /\ call.pc = "writing"
              /\ call' = [call EXCEPT !.pc = "written", !.tmp.content = text]
           \/ call' = [call EXCEPT !.pc = "failing", !.out = RaisedError("OSError: write")]
    /\ UNCHANGED runVars

\* Line 247: os.chmod(tmp_path, 0o600)
SaveChmod ==
    /\ call.pc = "written"
    /\ \/ call' = [call EXCEPT !.pc = "chmodded", !.tmp.mode = "600"]
       \/ call' = [call EXCEPT !.pc = "failing", !.out = RaisedError("OSError: chmod")]
    /\ UNCHANGED runVars

\* os.replace(src, dst): the destination becomes the source file in one
\* step.
Replace(dst, src) == src

\* Line 248: os.replace(tmp_path, cache_path), which raises when the path
\* is a directory; then save_cache returns.
SaveReplace ==
    /\ call.pc = "chmodded"
    /\ IF call.dest.kind = "dir"
       THEN call' = [call EXCEPT !.pc = "failing",
                                 !.out = RaisedError("OSError: replace")]
       ELSE call' = [call EXCEPT !.pc = "idle", !.dest = Replace(call.dest, call.tmp),
                                 !.tmp = Absent, !.saved = call.data,
                                 !.out = Returned(PyNone), !.read = Absent,
                                 !.ret = RaisedError("not called")]
    /\ UNCHANGED runVars

\* A variant of UnlinkTmp: the temporary file is left behind.
UnlinkTmpNever(tmp) == tmp

\* Lines 250-253: os.unlink(tmp_path); OSError is passed over.
UnlinkTmp(tmp) == Absent

\* Lines 249-254: the handler of BaseException removes the temporary file
\* and raises again.
SaveCleanup ==
    /\ call.pc = "failing"
    /\ call' = [call EXCEPT !.pc = "idle", !.tmp = UnlinkTmp(call.tmp)]
    /\ UNCHANGED runVars

\* The process stops inside save_cache, between two of its steps.
SaveKilled ==
    /\ call.pc \in {"opened", "writing", "written", "chmodded", "failing"}
    /\ call' = [call EXCEPT !.pc = "killed"]
    /\ UNCHANGED runVars

CacheNext ==
    \/ LoadCall
    \/ SaveCall
    \/ SaveWrite
    \/ SaveChmod
    \/ SaveReplace
    \/ SaveCleanup
    \/ SaveKilled

SpecCacheIO == CacheInit /\ [][CacheNext]_vars

\* load_cache has been called since the cache path last changed.
Loaded == call.ret.raised # "not called"

\* The file is a cache file: a regular file whose text is the JSON object
\* of a map of cache entries.
IsCacheFile(f) ==
    /\ f.kind = "file"
    /\ \E m \in CacheMaps : JsonLoads(f.content) = Parsed(m, <<>>)

\* C22: load_cache never raises and returns a map, the empty map for a
\* missing file and for every file that is not a cache file.
C22_LoadCacheTolerant ==
    Loaded =>
        /\ call.ret.raised = ""
        /\ call.ret.value.t = "dict"
        /\ ~IsCacheFile(call.read) => call.ret.value = PyDict(<<>>)

\* A save is under way: mkstemp has returned and save_cache has not.
Saving == call.pc \in {"opened", "writing", "written", "chmodded", "failing"}

\* The file save_cache puts in place for a map.
SavedFile(m) == RegularFile(JsonDump(m), "600")

C24_SaveLoadRoundTrip ==
    (Loaded /\ call.saved # PyNone) => call.ret = Returned(call.saved)

\* C24 happens: a second save replaced the file of a first one, and
\* load_cache returns the two entries of the second map.
C24_Witness ==
    /\ Loaded
    /\ call.pc = "idle"
    /\ call.saves = 2
    /\ call.out.raised = ""
    /\ DOMAIN call.saved.v = CacheKeys
    /\ call.saved.v["u1"] # call.saved.v["u2"]
    /\ \E m \in CacheMaps : m # call.saved /\ m # PyDict(<<>>) /\ call.prev = SavedFile(m)
    /\ call.ret = Returned(call.saved)

\* The run reached the finally block by the return of crawl_url: gather
\* returned the results of the units and embed_pending, which runs only
\* after a page was crawled, was not called.
FinallyOnReturn ==
    /\ saves = 1
    /\ results # <<>>
    /\ \A k \in 1..Len(results) : results[k].action # "crawled"

\* C25: when save_cache fails in the finally block of a run that was about
\* to return, crawl_url still returns the results of the units.
C25_SaveFailureKeepsResults ==
    (pc = "done" /\ FinallyOnReturn) =>
        /\ exit = "return"
        /\ results = [i \in Units |-> GatheredResult(unit[i])]

\* The call of insert_links for unit i ends in this step by an exception:
\* the backend has no insert_links, and the unit is not cancelled.
LinksRaisedFor(i) ==
    /\ ~HasInsertLinks(backend)
    /\ unit[i].pc = "links"
    /\ unit'[i].pc \notin {"links", "cancelled"}

\* C30: when insert_links raises for a URL or a file, the committed rows
\* and the other units are left alone and the unit goes on: in a crawl it
\* writes its cache entry and is then reported Crawled with its chunk
\* count, in ingest_path the file is reported ingested with its chunk
\* count and the loop goes on.
C30_LinkFailureSwallowed ==
    [][\A i \in Units :
        /\ LinksRaisedFor(i) =>
            /\ backend' = backend
            /\ \A j \in Units \ {i} : unit'[j] = unit[j]
            /\ unit'[i].ingested
            /\ unit'[i].count = unit[i].count
            /\ unit'[i].raised = ""
            /\ pc' = pc
            /\ IF pc = "gather"
               THEN /\ unit'[i].pc = "sleep"
                    /\ unit'[i].wrote
                    /\ cache'[unit[i].url] =
                           CacheEntry(unit[i].fetch.etag, unit[i].fetch.last_modified,
                                      ContentHash(unit[i].doc), 1)
               ELSE /\ unit'[i].pc = "done"
                    /\ results' = Append(results, IngestResult(unit[i].url, unit[i].count,
                                                               "ingested", ""))
        /\ (pc = "gather" /\ unit[i].pc = "sleep" /\ unit'[i].pc = "done") =>
            unit'[i].result = CrawlResult(unit[i].url, unit[i].count, "crawled", "")
      ]_vars

\* C30 happens: with the SQLite backend a page that has links was reported
\* Crawled with its chunks and wrote its cache entry, or the file that
\* names link targets was reported ingested and the next file was taken up.
C30_Witness ==
    /\ ~HasInsertLinks(backend)
    /\ \/ /\ pc = "gather"
          /\ \E i \in Units :
                /\ unit[i].pc = "done"
                /\ unit[i].result.action = "crawled"
                /\ unit[i].result.chunks > 0
                /\ unit[i].wrote
                /\ ExtractLinks(PageLinks(unit[i].url), unit[i].url) # <<>>
       \/ /\ pc = "ingest_loop"
          /\ Len(results) = 1
          /\ results[1].action = "ingested"
          /\ results[1].chunks > 0
          /\ ExtractRelatesTo(results[1].path) # <<>>
          /\ unit[2].pc # "queued"

\* ------------------------------------------------------------------------
\* normalize_url on the text of a URL
\* ------------------------------------------------------------------------

\* str.find(c, start) with positions from 1: the first position of c at or
\* after start, or 0.
FindFrom(s, c, start) ==
    IF \E i \in start..Len(s) : s[i] = c
    THEN CHOOSE i \in start..Len(s) : s[i] = c /\ \A j \in start..(i - 1) : s[j] # c
    ELSE 0

\* str.rfind(c) with positions from 1, or 0.
RFind(s, c) ==
    IF \E i \in 1..Len(s) : s[i] = c
    THEN CHOOSE i \in 1..Len(s) : s[i] = c /\ \A j \in (i + 1)..Len(s) : s[j] # c
    ELSE 0

\* s[i:] with positions from 1.
From(s, i) == SubSeq(s, i, Len(s))

\* The letters of urllib's scheme_chars that the model's URLs use.
SchemeChars == {"h", "t", "p", "H", "T", "P"}

\* urlsplit(url), the scheme: the text before the first ":" when it is made
\* of scheme characters, lower-cased, and the rest of the URL.
SplitScheme(text) ==
    LET colon == FindFrom(text, ":", 1)
    IN  IF colon > 1 /\ \A k \in 1..(colon - 1) : text[k] \in SchemeChars
        THEN [scheme |-> Lower(SubSeq(text, 1, colon - 1)), rest |-> From(text, colon + 1)]
        ELSE [scheme |-> <<>>, rest |-> text]

\* urlsplit(url), the netloc: after "//", up to the first of "/", "?", "#".
SplitNetloc(rest) ==
    LET ends == {i \in 3..Len(rest) : rest[i] \in {"/", "?", "#"}}
    IN  IF ~StartsWith(rest, <<"/", "/">>) THEN [netloc |-> <<>>, rest |-> rest]
        ELSE IF ends = {} THEN [netloc |-> From(rest, 3), rest |-> <<>>]
        ELSE LET delim == CHOOSE i \in ends : \A j \in ends : i <= j
             IN  [netloc |-> SubSeq(rest, 3, delim - 1), rest |-> From(rest, delim)]

\* url.split(c, 1): the text before the first c and the text after it.
SplitAtFirst(rest, c) ==
    LET at == FindFrom(rest, c, 1)
    IN  IF at = 0 THEN [before |-> rest, after |-> <<>>]
        ELSE [before |-> SubSeq(rest, 1, at - 1), after |-> From(rest, at + 1)]

\* urlsplit(url): scheme, netloc, path, query and fragment.
UrlSplit(text) ==
    LET schemed == SplitScheme(text)
        located == SplitNetloc(schemed.rest)
        hashed == SplitAtFirst(located.rest, "#")
        queried == SplitAtFirst(hashed.before, "?")
    IN  [scheme |-> schemed.scheme, netloc |-> located.netloc, path |-> queried.before,
         query |-> queried.after, fragment |-> hashed.after]

\* _splitparams(url): the ";params" of the last path segment.
SplitParams(path) ==
    LET i == IF FindFrom(path, "/", 1) > 0
             THEN FindFrom(path, ";", RFind(path, "/"))
             ELSE FindFrom(path, ";", 1)
    IN  IF i = 0 THEN [path |-> path, params |-> <<>>]
        ELSE [path |-> SubSeq(path, 1, i - 1), params |-> From(path, i + 1)]

\* urlparse(url); "http" and "" are in uses_params.
UrlParse(text) ==
    LET sp == UrlSplit(text)
        pp == IF FindFrom(sp.path, ";", 1) > 0 THEN SplitParams(sp.path)
              ELSE [path |-> sp.path, params |-> <<>>]
    IN  [scheme |-> sp.scheme, netloc |-> sp.netloc, path |-> pp.path,
         params |-> pp.params, query |-> sp.query, fragment |-> sp.fragment]

\* urlunparse(parts), through urlunsplit; "http" is in uses_netloc.
UrlUnparse(parts) ==
    LET withParams == IF parts.params # <<>> THEN parts.path \o <<";">> \o parts.params
                      ELSE parts.path
        rooted == IF withParams # <<>> /\ Head(withParams) # "/"
                  THEN <<"/">> \o withParams ELSE withParams
        withNetloc == IF parts.netloc # <<>>
                         \/ (parts.scheme # <<>> /\ ~StartsWith(withParams, <<"/", "/">>))
                      THEN <<"/", "/">> \o parts.netloc \o rooted
                      ELSE withParams
        withScheme == IF parts.scheme # <<>> THEN parts.scheme \o <<":">> \o withNetloc
                      ELSE withNetloc
        withQuery == IF parts.query # <<>> THEN withScheme \o <<"?">> \o parts.query
                     ELSE withScheme
    IN  IF parts.fragment # <<>> THEN withQuery \o <<"#">> \o parts.fragment
        ELSE withQuery

\* normalize_url(url) on the text of the URL.
NormalizeUrlText(text) ==
    LET parsed == UrlParse(text)
    IN  UrlUnparse([scheme |-> Lower(parsed.scheme),
                    netloc |-> Lower(parsed.netloc),
                    path |-> IF parsed.path # <<"/">> THEN RStripSlash(parsed.path)
                             ELSE <<"/">>,
                    params |-> parsed.params,
                    query |-> parsed.query,
                    fragment |-> <<>>])

\* The URL texts normalize_url is given: either case of scheme and host,
\* paths with and without trailing slashes, upper-case letters and a
\* ";" segment, with and without query and fragment.
UrlTexts ==
    {scheme \o <<":", "/", "/">> \o host \o path \o query \o fragment :
        scheme \in {Http, <<"H", "T", "T", "P">>},
        host \in {<<"a", ".", "c", "o">>, <<"A", ".", "C", "O">>},
        path \in {<<>>, <<"/">>, <<"/", "a">>, <<"/", "a", "/">>, <<"/", "A", "/">>,
                  <<"/", "a", "/", "/">>, <<"/", "a", ";", "x">>,
                  <<"/", "a", "/", ";", "x", "/">>},
        query \in {<<>>, <<"?", "C", "=", "1">>},
        fragment \in {<<>>, <<"#", "t", "o", "p">>}}

NormalizeInit ==
    /\ NoRun
    /\ \E text \in UrlTexts :
        call = [fn |-> "normalize_url", pc |-> "given", arg |-> text, once |-> <<>>,
                twice |-> <<>>]

\* normalize_url(url)
NormalizeOnce ==
    /\ call.pc = "given"
    /\ call' = [call EXCEPT !.pc = "once", !.once = NormalizeUrlText(call.arg)]
    /\ UNCHANGED runVars

\* normalize_url(normalize_url(url))
NormalizeTwice ==
    /\ call.pc = "once"
    /\ call' = [call EXCEPT !.pc = "twice", !.twice = NormalizeUrlText(call.once)]
    /\ UNCHANGED runVars

NormalizeNext ==
    \/ NormalizeOnce
    \/ NormalizeTwice

SpecNormalize == NormalizeInit /\ [][NormalizeNext]_vars

\* s ends with "/" characters only after position n.
OnlySlashesAfter(s, n) == \A i \in (n + 1)..Len(s) : s[i] = "/"

\* C29: normalize_url applied twice gives what it gives applied once; and
\* what it gives differs from the URL only in the case of scheme and host,
\* the fragment, which is gone, and the trailing slash of the path: path
\* letters, ";" parameters and the query are kept.
C29_NormalizeIdempotent ==
    /\ call.pc = "twice" => call.twice = call.once
    /\ call.pc \in {"once", "twice"} =>
        LET before == UrlParse(call.arg)
            after == UrlParse(call.once)
        IN  /\ after.scheme = Lower(before.scheme)
            /\ after.netloc = Lower(before.netloc)
            /\ after.fragment = <<>>
            /\ after.query = before.query
            /\ after.params = before.params
            /\ Len(after.path) <= Len(before.path)
            /\ after.path = SubSeq(before.path, 1, Len(after.path))
            /\ OnlySlashesAfter(before.path, Len(after.path))

\* ------------------------------------------------------------------------
\* chunk_by_headings on the text of a document
\* ------------------------------------------------------------------------
\* A text is a sequence of characters; positions count from 0 as in the
\* source, and Slice(s, a, b) is s[a:b].

Slice(s, a, b) == SubSeq(s, a + 1, b)

Whitespace == {" ", "\n"}

\* str.strip()
Strip(s) ==
    LET keep == {i \in 1..Len(s) : s[i] \notin Whitespace}
    IN  IF keep = {} THEN <<>>
        ELSE SubSeq(s, CHOOSE i \in keep : \A j \in keep : i <= j,
                       CHOOSE i \in keep : \A j \in keep : j <= i)

\* The elements of a set of positions in increasing order.
RECURSIVE Ascending(_)
Ascending(S) ==
    IF S = {} THEN <<>>
    ELSE LET least == CHOOSE x \in S : \A y \in S : x <= y
         IN  <<least>> \o Ascending(S \ {least})

\* The sequences of a sequence of sequences, joined.
RECURSIVE ConcatAll(_)
ConcatAll(seqs) ==
    IF seqs = <<>> THEN <<>> ELSE Head(seqs) \o ConcatAll(Tail(seqs))

\* Where "^" matches under re.MULTILINE: at 0 and after every newline.
LineStarts(text) == {0} \cup {p \in 1..Len(text) : text[p] = "\n"}

\* Where "$" matches for the line that starts at p.
LineEnd(text, p) ==
    LET ends == {q \in p..(Len(text) - 1) : text[q + 1] = "\n"}
    IN  IF ends = {} THEN Len(text) ELSE CHOOSE q \in ends : \A r \in ends : q <= r

\* The starts of the matches of ^#{hashes} (.+)$ in text.
HeadingMatches(text, hashes) ==
    {p \in LineStarts(text) :
        /\ LineEnd(text, p) >= p + hashes + 2
        /\ \A k \in 1..hashes : text[p + k] = "#"
        /\ text[p + hashes + 1] = " "}

\* match.group(1).strip() of the heading match at p.
HeadingTitle(text, p, hashes) == Strip(Slice(text, p + hashes + 1, LineEnd(text, p)))

\* Path(file_path).stem
Stem(file_path) ==
    LET name == From(file_path, RFind(file_path, "/") + 1)
        dot == RFind(name, ".")
    IN  IF dot > 1 THEN SubSeq(name, 1, dot - 1) ELSE name

\* extract_title(markdown): the first H1 heading, or None.
ExtractTitle(markdown) ==
    LET hits == HeadingMatches(markdown, 1)
    IN  IF hits = {} THEN None
        ELSE HeadingTitle(markdown, CHOOSE p \in hits : \A q \in hits : p <= q, 1)

\* The backtick, which a string of the model cannot hold, is written "^".
Backtick == "^"

\* The starts of the matches of _FENCED_CODE_RE: a line that begins with
\* three backticks or three tildes.
FenceMatches(text) ==
    {p \in LineStarts(text) :
        /\ p + 3 <= Len(text)
        /\ text[p + 1] \in {Backtick, "~"}
        /\ text[p + 2] = text[p + 1]
        /\ text[p + 3] = text[p + 1]}

\* match.end() of the fence match at p: the marker is the whole run.
FenceEnd(text, p) ==
    LET others == {q \in p..(Len(text) - 1) : text[q + 1] # text[p + 1]}
    IN  IF others = {} THEN Len(text) ELSE CHOOSE q \in others : \A r \in others : q <= r

\* The loop of _find_protected_ranges over the fence matches.
RECURSIVE FenceRanges(_, _, _, _, _)
FenceRanges(text, matches, in_fence, fence_start, fence_marker) ==
    IF matches = <<>>
    THEN IF in_fence THEN {<<fence_start, Len(text)>>} ELSE {}
    ELSE LET p == Head(matches)
             marker == text[p + 1]
         IN  IF ~in_fence
             THEN FenceRanges(text, Tail(matches), TRUE, p, marker)
             ELSE IF marker = fence_marker
             THEN {<<fence_start, FenceEnd(text, p)>>}
                  \cup FenceRanges(text, Tail(matches), FALSE, fence_start, fence_marker)
             ELSE FenceRanges(text, Tail(matches), in_fence, fence_start, fence_marker)

\* is_table of the line that starts at p.
IsTableLine(text, p) ==
    LET stripped == Strip(Slice(text, p, LineEnd(text, p)))
    IN  stripped # <<>> /\ Head(stripped) = "|" /\ stripped[Len(stripped)] = "|"

\* The loop of _find_protected_ranges over the lines.
RECURSIVE TableRanges(_, _, _)
TableRanges(text, starts, table_start) ==
    IF starts = <<>>
    THEN IF table_start # -1 THEN {<<table_start, Len(text)>>} ELSE {}
    ELSE LET pos == Head(starts)
             is_table == IsTableLine(text, pos)
         IN  IF is_table /\ table_start = -1
             THEN TableRanges(text, Tail(starts), pos)
             ELSE IF ~is_table /\ table_start # -1
             THEN {<<table_start, pos>>} \cup TableRanges(text, Tail(starts), -1)
             ELSE TableRanges(text, Tail(starts), table_start)

\* _find_protected_ranges(text); its callers only ask whether a position
\* is in one of the ranges, so the ranges are kept as a set.
FindProtectedRanges(text) ==
    FenceRanges(text, Ascending(FenceMatches(text)), FALSE, 0, "")
    \cup TableRanges(text, Ascending(LineStarts(text)), -1)

\* _is_in_protected(pos, ranges)
IsInProtected(pos, ranges) == \E r \in ranges : r[1] <= pos /\ pos < r[2]

\* text.find("\n\n", idx), or -1.
FindBlankLine(text, idx) ==
    LET hits == {q \in idx..(Len(text) - 2) : text[q + 1] = "\n" /\ text[q + 2] = "\n"}
    IN  IF hits = {} THEN -1 ELSE CHOOSE q \in hits : \A r \in hits : q <= r

\* The split points of _split_paragraphs_safe from idx on.
RECURSIVE SplitPoints(_, _, _)
SplitPoints(text, idx, protected) ==
    LET found == FindBlankLine(text, idx)
    IN  IF found = -1 THEN <<>>
        ELSE (IF IsInProtected(found, protected) THEN <<>> ELSE <<found>>)
             \o SplitPoints(text, found + 2, protected)

\* "".join(current_parts).strip(), appended when it is not empty.
Emit(current) == IF Strip(current) = <<>> THEN <<>> ELSE <<Strip(current)>>

\* The greedy packing of _split_paragraphs_safe: current is the join of
\* current_parts, started says that current_parts is not empty.
RECURSIVE Pack(_, _, _, _)
Pack(segments, started, current, max_size) ==
    IF segments = <<>>
    THEN IF started THEN Emit(current) ELSE <<>>
    ELSE LET seg == Head(segments)
         IN  IF started /\ Len(current) + Len(seg) > max_size
             THEN Emit(current) \o Pack(Tail(segments), TRUE, seg, max_size)
             ELSE Pack(Tail(segments), TRUE, current \o seg, max_size)

\* _split_paragraphs_safe(text, max_size)
SplitParagraphsSafe(text, max_size) ==
    IF Len(text) <= max_size THEN <<text>>
    ELSE LET split_points == SplitPoints(text, 0, FindProtectedRanges(text))
             boundaries == <<0>> \o [i \in 1..Len(split_points) |-> split_points[i] + 2]
                           \o <<Len(text)>>
             segments == [i \in 1..(Len(boundaries) - 1) |->
                             Slice(text, boundaries[i], boundaries[i + 1])]
             chunks == Pack(segments, FALSE, <<>>, max_size)
         IN  IF split_points = <<>> THEN <<text>>
             ELSE IF chunks = <<>> THEN <<text>>
             ELSE chunks

\* A chunk: {"title", "content", "section_path"}.
TextChunk(title, content, section_path) ==
    [title |-> title, content |-> content, section_path |-> section_path]

\* f"{title} (cont.)"
Continued(title) == title \o <<" ", "(", "c", "o", "n", "t", ".", ")">>

\* f"{doc_title} > {title}"
SectionPath(doc_title, title) == doc_title \o <<" ", ">", " ">> \o title

\* The chunks of the parts of a split: the first keeps the title, the
\* others are continuations, and a part of whitespace is left out.
ContinuedParts(parts, title, section_path) ==
    ConcatAll([i \in 1..Len(parts) |->
        IF Strip(parts[i]) = <<>> THEN <<>>
        ELSE <<TextChunk(IF i = 1 THEN title ELSE Continued(title), parts[i],
                         section_path)>>])

\* _split_section_by_subheadings(content, doc_title, parent_title, level, max_size)
RECURSIVE SplitSectionBySubheadings(_, _, _, _, _)
SplitSectionBySubheadings(content, doc_title, parent_title, level, max_size) ==
    LET matches == Ascending(HeadingMatches(content, level + 1))
        parts == SplitParagraphsSafe(content, max_size)
    IN  IF matches = <<>>
        THEN IF Len(parts) = 1
             THEN <<TextChunk(parent_title, Strip(content),
                              SectionPath(doc_title, parent_title))>>
             ELSE ContinuedParts(parts, parent_title, SectionPath(doc_title, parent_title))
        ELSE ConcatAll([i \in 1..Len(matches) |->
                 LET title == HeadingTitle(content, matches[i], level + 1)
                     start == matches[i]
                     end == IF i < Len(matches) THEN matches[i + 1] ELSE Len(content)
                     section == Strip(Slice(content, start, end))
                 IN  IF Len(section) < 20 THEN <<>>
                     ELSE IF Len(section) > max_size /\ level + 1 < 4
                     THEN SplitSectionBySubheadings(section, doc_title, title, level + 1,
                                                    max_size)
                     ELSE IF Len(section) > max_size
                     THEN ContinuedParts(SplitParagraphsSafe(section, max_size), title,
                                         SectionPath(doc_title, title))
                     ELSE <<TextChunk(title, section, SectionPath(doc_title, title))>>])

\* chunk_by_headings(markdown, file_path, max_chunk_size)
ChunkByHeadingsText(markdown, file_path, max_chunk_size) ==
    LET matches == Ascending(HeadingMatches(markdown, 2))
        extracted == ExtractTitle(markdown)
        doc_title == IF extracted # <<>> THEN extracted ELSE Stem(file_path)
        stripped == Strip(markdown)
        whole == <<TextChunk(doc_title, stripped, doc_title)>>
        parts == ContinuedParts(SplitParagraphsSafe(stripped, max_chunk_size), doc_title,
                                doc_title)
        chunks == ConcatAll([i \in 1..Len(matches) |->
                     LET title == HeadingTitle(markdown, matches[i], 2)
                         start == matches[i]
                         end == IF i < Len(matches) THEN matches[i + 1] ELSE Len(markdown)
                         content == Strip(Slice(markdown, start, end))
                     IN  IF Len(content) < 20 THEN <<>>
                         ELSE IF Len(content) > max_chunk_size
                         THEN SplitSectionBySubheadings(content, doc_title, title, 2,
                                                        max_chunk_size)
                         ELSE <<TextChunk(title, content, SectionPath(doc_title, title))>>])
    IN  IF matches = <<>>
        THEN IF Len(stripped) <= max_chunk_size THEN whole
             ELSE IF parts = <<>> THEN whole
             ELSE parts
        ELSE IF chunks = <<>> THEN whole ELSE chunks

\* The lines the documents are made of: headings of the four levels, a
\* paragraph line, a blank line, code fences of three backticks, of four
\* backticks and of three tildes, and a table row.
H1Line == <<"#", " ", "T">>
H2Line == <<"#", "#", " ", "S", "e", "c", "t", "i", "o", "n", " ", "h", "e", "a", "d", "i",
            "n", "g", " ", "A">>
H3Line == <<"#", "#", "#", " ", "B">>
H4Line == <<"#", "#", "#", "#", " ", "C">>
TextLine == <<"s", "o", "m", "e", " ", "s", "i", "x", "t", "e", "e", "n", " ", "c", "h", ".">>
BlankLine == <<>>
FenceLine == <<Backtick, Backtick, Backtick>>
LongFenceLine == <<Backtick, Backtick, Backtick, Backtick>>
TildeFenceLine == <<"~", "~", "~">>
TableLine == <<"|", " ", "t", " ", "|">>

LineKinds ==
    {H1Line, H2Line, H3Line, H4Line, TextLine, BlankLine, FenceLine, LongFenceLine,
     TildeFenceLine, TableLine}

\* "\n".join(lines)
RECURSIVE JoinLines(_)
JoinLines(lines) ==
    IF Len(lines) = 1 THEN lines[1]
    ELSE lines[1] \o <<"\n">> \o JoinLines(Tail(lines))

MaxLines == 4

\* Documents of more lines: sub-headings three levels deep with paragraphs
\* under them, and a paragraph boundary inside a code fence.
LongDocuments ==
    {JoinLines(<<H2Line, H3Line, H4Line, TextLine, BlankLine, TextLine>>),
     JoinLines(<<H2Line, H3Line, TextLine, BlankLine, TextLine, H3Line, TextLine>>),
     JoinLines(<<TextLine, BlankLine, FenceLine, TextLine, BlankLine, TextLine, FenceLine,
                 BlankLine, TextLine>>),
     JoinLines(<<H2Line, TextLine, BlankLine, TableLine, TableLine, BlankLine, TextLine>>)}

Markdowns ==
    {JoinLines(lines) : lines \in UNION {[1..n -> LineKinds] : n \in 1..MaxLines}}
    \cup LongDocuments

\* max_chunk_size: the default, and one that the sections of the documents
\* exceed, as the sizes 200 and 300 of the tests do for theirs.
ChunkSizes == {25, 4000}

ChunkInit ==
    /\ NoRun
    /\ \E markdown \in Markdowns, max_chunk_size \in ChunkSizes :
        call = [fn |-> "chunk_by_headings", pc |-> "given", markdown |-> markdown,
                file_path |-> <<"d", "o", "c", ".", "m", "d">>,
                max_chunk_size |-> max_chunk_size, chunks |-> <<>>, ranges |-> {}]

\* chunk_by_headings(markdown, file_path, max_chunk_size)
ChunkCall ==
    /\ call.pc = "given"
    /\ call' = [call EXCEPT !.pc = "returned",
                            !.chunks = ChunkByHeadingsText(call.markdown, call.file_path,
                                                           call.max_chunk_size)]
    /\ UNCHANGED runVars

\* _find_protected_ranges(text)
RangesCall ==
    /\ call.pc = "given"
    /\ call' = [call EXCEPT !.pc = "ranges", !.ranges = FindProtectedRanges(call.markdown)]
    /\ UNCHANGED runVars

ChunkNext ==
    \/ ChunkCall
    \/ RangesCall

SpecChunk == ChunkInit /\ [][ChunkNext]_vars

\* The chunks chunk_by_headings returned.
Chunked == call.fn = "chunk_by_headings" /\ call.pc = "returned"

\* The characters of a text that are not whitespace.
Squeeze(s) == SelectSeq(s, LAMBDA c : c \notin Whitespace)

\* The contents of the returned chunks, joined in order.
JoinedContents == ConcatAll([i \in 1..Len(call.chunks) |-> call.chunks[i].content])

\* C26: the contents of the chunks chunk_by_headings returns, joined in
\* order, are the source but for whitespace: nothing of the source is
\* dropped, duplicated or reordered.
C26_ChunksReproduceSource ==
    Chunked => Squeeze(JoinedContents) = Squeeze(call.markdown)

\* The tables of a text: the runs of consecutive table rows.
TablesOf(text) ==
    {Strip(Slice(text, r[1], r[2])) : r \in TableRanges(text, Ascending(LineStarts(text)), -1)}

\* Every code fence of the text is closed.
FencesClosed(text) == Cardinality(FenceMatches(text)) % 2 = 0

\* C27: no chunk boundary of chunk_by_headings lies inside a fenced code
\* block or a table: when every fence of the source is closed, every fence
\* of every chunk is closed, and a chunk that holds a table row holds a
\* whole table of the source.
C27_ProtectedBlocksWhole ==
    Chunked =>
        \A i \in 1..Len(call.chunks) :
            LET content == call.chunks[i].content
            IN  /\ FencesClosed(call.markdown) => FencesClosed(content)
                /\ TablesOf(content) # {} =>
                    \E table \in TablesOf(call.markdown) : Contains(content, table)

\* C28: chunk_by_headings returns at least one chunk, and every chunk it
\* returns has content that is not empty.
C28_ChunksNonEmpty ==
    Chunked =>
        /\ Len(call.chunks) >= 1
        /\ \A i \in 1..Len(call.chunks) : call.chunks[i].content # <<>>

\* The document title the chunks are filed under: the first level-1 heading
\* or, without one, the base name of the file path.
TitleOfDocument ==
    LET hits == HeadingMatches(call.markdown, 1)
        first == CHOOSE p \in hits : \A q \in hits : p <= q
    IN  IF hits # {} /\ HeadingTitle(call.markdown, first, 1) # <<>>
        THEN HeadingTitle(call.markdown, first, 1)
        ELSE <<"d", "o", "c">>

\* The chunk starts with a heading line of the level.
StartsWithHeading(content, hashes) == 0 \in HeadingMatches(content, hashes)

\* C31: the section_path of every chunk is the document title followed by
\* the titles of the headings that enclose the chunk, joined by " > ": the
\* chunk of a level-2 section has the title of the section after the
\* document title, and a chunk that a level-3 or level-4 split made has the
\* title of its level-2 section between the document title and its own. The
\* chunk that is the whole document, under the document title, is left out.
C31_SectionPathHasParents ==
    (Chunked /\ HeadingMatches(call.markdown, 2) # {}) =>
        \A i \in 1..Len(call.chunks) :
            LET chunk == call.chunks[i]
                section == SectionPath(TitleOfDocument, HeadingTitle(H2Line, 0, 2))
            IN  chunk.title # TitleOfDocument =>
                /\ StartsWith(chunk.section_path, TitleOfDocument)
                /\ StartsWithHeading(chunk.content, 2) => chunk.section_path = section
                /\ \A hashes \in {3, 4} :
                    (/\ StartsWithHeading(chunk.content, hashes)
                     /\ chunk.title = HeadingTitle(chunk.content, 0, hashes))
                    => /\ StartsWith(chunk.section_path, section \o <<" ", ">", " ">>)
                       /\ EndsWith(chunk.section_path, <<" ", ">", " ">> \o chunk.title)

\* C32: a crawl_url that is not a dry run and reached asyncio.gather
\* returns, unless it is cancelled, exactly one result for every candidate
\* URL, the i-th for the i-th candidate, in whatever order the units ended.
C32_OneResultPerCandidateInOrder ==
    (pc = "done" /\ exit = "return" /\ ~cfg.dry_run /\ backend.conn # "absent") =>
        /\ Len(results) = Len(discovered)
        /\ \A i \in 1..Len(discovered) : results[i].url = discovered[i]

\* C32 happens: two units ran side by side, the first was crawled and the
\* second, which had less to do, was not.
C32_Witness ==
    /\ pc = "done"
    /\ exit = "return"
    /\ ~cfg.dry_run
    /\ cfg.concurrency = 2
    /\ Len(discovered) = 2
    /\ discovered[1] # discovered[2]
    /\ results[1].action = "crawled"
    /\ results[2].action \notin {"crawled", "error"}

\* _find_protected_ranges returned the ranges of the document.
Ranged == call.fn = "chunk_by_headings" /\ call.pc = "ranges"

\* The length of the fence marker at p.
MarkerLength(text, p) == FenceEnd(text, p) - p

\* The fenced code blocks of a text: a block opened by a marker is closed by
\* the next marker of the same character that is at least as long, and a
\* block that nothing closes runs to the end of the text.
RECURSIVE FencedBlocks(_, _, _, _)
FencedBlocks(text, matches, open, start) ==
    IF matches = <<>>
    THEN IF open THEN {<<start, Len(text)>>} ELSE {}
    ELSE LET p == Head(matches)
         IN  IF ~open THEN FencedBlocks(text, Tail(matches), TRUE, p)
             ELSE IF /\ text[p + 1] = text[start + 1]
                     /\ MarkerLength(text, p) >= MarkerLength(text, start)
             THEN {<<start, FenceEnd(text, p)>>}
                  \cup FencedBlocks(text, Tail(matches), FALSE, start)
             ELSE FencedBlocks(text, Tail(matches), open, start)

\* C33: every fenced code block of the text is a protected range: a block
\* opened by N backticks or tildes ends at the next marker of the same
\* character of length at least N, not at a shorter marker or at a marker
\* of the other character, and an open block runs to the end of the text.
C33_FenceClosedBySameMarker ==
    Ranged =>
        \A block \in FencedBlocks(call.markdown, Ascending(FenceMatches(call.markdown)),
                                  FALSE, 0) :
            block \in call.ranges

\* The tables of a text as ranges: from the start of the first row of a
\* run of table rows to the end of its last row.
TableBlocks(text) ==
    {<<r[1], IF r[2] < Len(text) THEN r[2] - 1 ELSE r[2]>> :
        r \in TableRanges(text, Ascending(LineStarts(text)), -1)}

\* The text holds a paragraph boundary, a blank line, that lies outside all
\* its code fences and tables.
HasFreeBoundary(text) ==
    \E idx \in 0..(Len(text) - 2) :
        /\ text[idx + 1] = "\n"
        /\ text[idx + 2] = "\n"
        /\ ~IsInProtected(idx, FencedBlocks(text, Ascending(FenceMatches(text)), FALSE, 0)
                                \cup TableBlocks(text))

\* C34: in a document that is split by paragraphs, a chunk longer than
\* max_chunk_size holds no paragraph boundary outside all code fences and
\* tables; the first chunk has the title and every further chunk the title
\* followed by " (cont.)".
C34_ParagraphChunksFit ==
    (Chunked /\ HeadingMatches(call.markdown, 2) = {}) =>
        \A i \in 1..Len(call.chunks) :
            LET chunk == call.chunks[i]
            IN  /\ Len(chunk.content) > call.max_chunk_size => ~HasFreeBoundary(chunk.content)
                /\ chunk.title = IF i = 1 THEN TitleOfDocument
                                 ELSE Continued(TitleOfDocument)

\* The policy objects the run holds: the one crawl_url checks every crawled
\* URL against and the one the discovery checks every discovered URL against.
PoliciesHeld ==
    (IF robots # None THEN {robots} ELSE {})
        \cup (IF disc # None /\ disc.mode \in {"sitemap", "nested", "bfs"} /\ disc.robots # None
               THEN {disc.robots} ELSE {})

\* C35: within one run robots.txt is requested at most once (only by the
\* step that opens the run) and parsed once: every policy a URL is checked
\* against is the object the first call of _parse_robots returned.
C35_RobotsFetchedAndParsedOnce ==
    [][/\ (lastRequest' # lastRequest /\ lastRequest' # None /\ lastRequest'.stage = "robots")
            => pc = "start"
       /\ \A policy \in PoliciesHeld' : policy.nth = 1]_vars

\* The text of u ends in ".xml".
EndsInXml(u) == EndsWith(UrlText(u), <<".", "x", "m", "l">>)

\* C36: nested-sitemap resolution is triggered exactly when every <loc> entry
\* of the fetched sitemap ends in .xml: a sitemap of such entries is resolved,
\* and every nested request goes to an entry that ends in .xml, so the page
\* URLs of a sitemap are never fetched as sitemaps.
C36_NestedOnlyForXmlEntries ==
    /\ \A doc \in SitemapDocs(url.netloc) :
            LET urls == ParseSitemap(doc)
            IN  (urls # <<>> /\ \A i \in 1..Len(urls) : EndsInXml(urls[i]))
                    => NestedSitemaps(urls) = urls
    /\ (lastRequest # None /\ lastRequest.stage = "nested") => EndsInXml(lastRequest.url)

\* ------------------------------------------------------------------------
\* _discover_bfs on its own
\* ------------------------------------------------------------------------

\* The largest max_urls the discovery is called with here.
BfsMaxUrls == 4

\* discover_urls(client, base_url, config, robots_txt) with config.sitemap
\* off, called outside crawl_url: the state at the entry of _discover_bfs.
BfsInit ==
    /\ url \in BaseUrls
    /\ pc = "bfs"
    /\ exit = "running"
    /\ \E d \in Depths, m \in 0..BfsMaxUrls :
          cfg = [UnreadConfig EXCEPT !.depth = ClampDepth(d), !.max_urls = m]
    /\ \E robots_txt \in RobotsTexts :
          disc = BfsLocals(url) @@ [robots |-> DiscoverRobots(robots_txt),
                                    sitemap |-> "unused"]
    /\ cacheFile = None
    /\ loaded = None
    /\ cache = None
    /\ robots = None
    /\ discovered = <<>>
    /\ backend = None
    /\ hasHash = FALSE
    /\ unit = <<>>
    /\ results = <<>>
    /\ lastRequest = None
    /\ saves = 0
    /\ call = None

BfsNext ==
    \/ BfsLoop
    \/ BfsGot

\* Every pass of the loop runs to its next await or to the return, and
\* every page request returns or raises.
SpecBfs == BfsInit /\ [][BfsNext]_vars /\ WF_vars(BfsLoop) /\ WF_vars(BfsGot)

\* C37: BFS discovery returns on every link graph, cycles and self-links
\* included, and sends at most one GET per normalized URL: the URLs it has
\* requested are the outputs of normalize_url and none is requested twice.
C37_BfsTerminatesOneGetPerUrl ==
    /\ [](InBfs => /\ NoDuplicates(disc.gets)
                   /\ \A i \in 1..Len(disc.gets) : disc.gets[i] \in disc.visited)
    /\ <>(pc = "filter")

\* C37 happens: the discovery has requested two pages and the next URL of
\* its queue, a link that two pages carry, has been visited already.
C37_Witness ==
    /\ pc = "bfs"
    /\ Len(disc.gets) >= 2
    /\ Len(disc.result) < cfg.max_urls
    /\ disc.queue # <<>>
    /\ Head(disc.queue).url \in disc.visited

\* A step that changes the in-memory cache is the write of one unit: it
\* replaces the whole entry of the unit's own URL by the entry made of the
\* validators and the hash of the page the unit fetched, and leaves every
\* other key and entry as it was.
CacheFrame ==
    (cache # None /\ cache' # cache) =>
        \E i \in Units :
            /\ ~unit[i].wrote
            /\ unit'[i].wrote
            /\ DOMAIN cache' = DOMAIN cache
            /\ \A p \in DOMAIN cache \ {unit[i].url} : cache'[p] = cache[p]
            /\ cache'[unit[i].url] =
                   CacheEntry(unit[i].fetch.etag, unit[i].fetch.last_modified,
                              ContentHash(unit[i].doc), 1)

\* Every unit of the run has ended.
AllEnded == unit # <<>> /\ \A i \in Units : Ended(i)

\* ingest_file returned for the unit's URL, or its hash was found equal.
IngestedOrConfirmed(i) == unit[i].ingested \/ unit[i].matched

\* The unit wrote its cache entry.
WroteEntry(i) == unit[i].wrote

\* The cache is the loaded one overridden by entries of this run for the
\* URLs of the given units.
CacheIsLoadedOverriddenBy(writers) ==
    \A p \in DOMAIN cache :
        IF \E i \in writers : unit[i].url = p
        THEN cache[p] # None /\ cache[p].timestamp = 1
        ELSE cache[p] = loaded[p]

Progress ==
    \/ Start
    \/ GotRobots
    \/ GotSitemap
    \/ GotNested
    \/ BfsLoop
    \/ BfsGot
    \/ Filter
    \/ Startup
    \/ Schema
    \/ \E i \in Units : UnitStart(i)
    \/ \E i \in Units : UnitFetched(i)
    \/ \E i \in Units : UnitExtracted(i)
    \/ \E i \in Units : UnitHashed(i)
    \/ \E i \in Units : UnitDeleted(i)
    \/ \E i \in Units : UnitInserted(i)
    \/ \E i \in Units : UnitCommitted(i)
    \/ \E i \in Units : UnitLinked(i)
    \/ \E i \in Units : UnitSlept(i)
    \/ Collect
    \/ Shutdown

\* The event loop runs every coroutine that can run, and every network
\* and backend call that was awaited returns or raises.
SpecLive == Init /\ [][Next]_vars /\ WF_vars(Progress)

\* C39: when every network and backend call returns or raises, the tasks
\* handed to gather all end, none waits on the semaphore for ever, and
\* crawl_url ends.
C39_EveryUnitEndsAndRunEnds ==
    /\ (pc = "gather") ~> (\A i \in Units : Ended(i))
    /\ <>(pc = "done")

\* C40: once backend.startup() has succeeded, crawl_url does not return or
\* raise before backend.shutdown() was called: when it has ended, on any
\* path, a backend that was started is closed.
C40_ShutdownAfterStartup ==
    (pc = "done" /\ backend.conn # "absent") => backend.conn = "closed"

====
